---- MODULE Spec2Model ----
(***************************************************************************)
(* Motion-control core of the APC-R controller (controls.py, presets.py). *)
(*                                                                         *)
(* The per-axis continuous-motion state machine is modelled for one axis   *)
(* at a time (movement_state has one independent slot per axis), with the  *)
(* threads that really touch it: the caller threads (joystick loop of      *)
(* main.py, command thread of interpreter.py) and one thread per           *)
(* threading.Timer callback.  No lock guards movement_state in the source, *)
(* so every handler is split at its accesses to the shared slot.           *)
(*                                                                         *)
(* Angles are kept as the integers the feed delivers.  command_delta is    *)
(* (speed_val / 2024.0) * 90.0, so every comparison "pos + delta <= wall"  *)
(* is made exactly on integers scaled by 2024.                             *)
(***************************************************************************)
EXTENDS Integers, Sequences, FiniteSets, TLC

\* ------------------------------------------------------------------ bounds
MaxTimers == 3        \* Timer objects alive at the same time
MaxOps == 3           \* caller calls and repeat-timer firings in one behaviour
MaxPeerOps == 4       \* second axis: it is driven while both axes together made fewer calls and firings

\* ------------------------------------------------------- program constants
NoTimer == 0          \* movement_state[..]['timer'] = None
SpeedMin == 20        \* base_min magnitude
SpeedMax == 2024      \* base_max magnitude
DegPerFull == 90      \* command_delta = (speed_val / 2024.0) * 90.0
ZoomNativeMin == 1
ZoomNativeSpan == 4094

Axes == {"pan", "tilt", "roll", "zoom"}
PTR == {"pan", "tilt", "roll"}
Callers == {"joy", "panel"}
TimerIds == 1..MaxTimers

\* Inputs the callers pass (main.py joystick loop, interpreter.py handlers).
Pcts == {1, 100}
PctsOf(t) == IF t = "joy" THEN Pcts ELSE {100}
DirsOf(ax) == IF ax = "zoom" THEN {"in", "out"} ELSE {"positive", "negative"}
KindsOf(t) == IF t = "joy" THEN {"axis"} ELSE {"button"}

\* Feed samples (FDB frames) and wall bounds the scenarios draw from.
FeedVals == {50, 120, 180, 250}
NoWall == [has |-> FALSE, ws |-> 0, we |-> 0]
WallCfgs == {NoWall, [has |-> TRUE, ws |-> 100, we |-> 200],
                     [has |-> TRUE, ws |-> 300, we |-> 60]}

VARIABLES
    axis,             \* the axis whose movement_state slot is modelled
    callers,          \* caller threads that exist in this scenario
    st,               \* movement_state[axis]
    timers,           \* the threading.Timer objects (armed / running / dead)
    pc,               \* position of each caller thread inside its call
    arg,              \* arguments / locals of the call in progress
    pos,              \* current_position[camid]
    wall,             \* apcr virtualwallstart_/end_ for the axis' wall check
    virtualwall,      \* settings["global_settings"]["virtualwall"]
    adaptive_speed,   \* settings["global_settings"]["adaptive_speed"]
    cumulative_delta, \* in speed_val units (degrees = value * 90 / 2024)
    predicted_block,
    predictor,        \* the virtual_wall_predictor thread
    virtual_wall_tracker,
    recall_active,    \* presets._recall_active
    rpc,              \* position of each recall_preset call
    rsent,            \* motion packets emitted by each recall_preset call
    virtualwallpreset, \* settings["global_settings"]["virtualwallpreset"]
    apcrs,            \* per device: active_track, pan wall, latest pan sample
    seg,              \* the running do_move_segment call: its locals and position
    dev,              \* the device: where its head stands and how it reacts
    sent,             \* per axis, the kind of the last packet the segment sent
    localPan,         \* presets._localPan, in degrees
    fdb_old,          \* the cached sample is older than the staleness timeout
    other,            \* movement_state[Peer(axis)]: the slot of a second axis
    \* observation (history) variables
    lastSend,         \* the last packet handed to send_apcr_command
    quiet,            \* a stop returned and no start_or_update was entered since
    ret,              \* what the last finished start_or_update / stop call did
    nops,             \* calls made and repeat timers fired so far
    prevStop,         \* per caller: the previous call was an undisturbed stop
    lastRep,          \* what the last finished repeat callback did
    predObs,          \* what the predictor saw at its last tick
    out               \* what the last call of a wall function returned

vars == <<axis, callers, st, timers, pc, arg, pos, wall, virtualwall,
          adaptive_speed, cumulative_delta, predicted_block, predictor,
          virtual_wall_tracker, recall_active, rpc, rsent,
          virtualwallpreset, apcrs, seg, dev, sent, localPan, fdb_old,
          other, lastSend, quiet, ret, nops, prevStop, lastRep, predObs, out>>

motionCore == <<st, timers, pc, arg, cumulative_delta, quiet, nops, prevStop>>
motionVars == <<st, timers, pc, arg, cumulative_delta, lastSend, quiet, ret,
                nops, prevStop, lastRep>>
recallVars == <<recall_active, rpc, rsent>>
segVars == <<seg, dev, sent>>
feedAux == <<localPan, fdb_old>>
cfgCore == <<axis, callers, wall, virtualwall, adaptive_speed,
             virtualwallpreset, apcrs, segVars, feedAux, other>>
cfgVars == <<cfgCore, out>>

\* ------------------------------------------------------------ arithmetic
Abs(x) == IF x < 0 THEN -x ELSE x
Sign(x) == IF x > 0 THEN 1 ELSE IF x < 0 THEN -1 ELSE 0
\* Python int(a / b) for b > 0: truncation toward zero
TruncDiv(a, b) == IF a >= 0 THEN a \div b ELSE -((-a) \div b)

\* SpeedSign with tilt given the signs of pan and roll
SpeedSignUninverted(ax, dir) == IF dir = "positive" THEN 1 ELSE -1

\* speed_val = int(base_min + (percentage - 1) * (base_max - base_min) / 99)
SpeedSign(ax, dir) ==
    IF ax = "tilt" THEN (IF dir = "positive" THEN -1 ELSE 1)
                   ELSE (IF dir = "positive" THEN 1 ELSE -1)

SpeedVal(ax, dir, pct) ==
    SpeedSign(ax, dir)
      * TruncDiv(SpeedMin * 99 + (pct - 1) * (SpeedMax - SpeedMin), 99)

\* zoom_percentage = (zoom_value - 1) * 100 / 4094, kept as a numerator over 4094
ZoomPctNum(zoom) == (zoom - ZoomNativeMin) * 100

\* calculate_adaptive_speed with the default breakpoints 0 -> 50, 100 -> 3
AdaptLow == 50
AdaptHigh == 3
CalculateAdaptiveSpeedFromBase(zoom, base) ==
    LET zn == ZoomPctNum(zoom)
        zc == IF zn < 0 THEN 0
              ELSE IF zn > 100 * ZoomNativeSpan THEN 100 * ZoomNativeSpan ELSE zn
        adj == TruncDiv(base * 100 * ZoomNativeSpan + zc * (AdaptHigh - base),
                        100 * ZoomNativeSpan)
    IN  IF adj < 1 THEN 1 ELSE IF adj > 100 THEN 100 ELSE adj

CalculateAdaptiveSpeed(zoom, base) ==
    LET zn == ZoomPctNum(zoom)
        zc == IF zn < 0 THEN 0
              ELSE IF zn > 100 * ZoomNativeSpan THEN 100 * ZoomNativeSpan ELSE zn
        adj == TruncDiv(AdaptLow * 100 * ZoomNativeSpan + zc * (AdaptHigh - AdaptLow),
                        100 * ZoomNativeSpan)
    IN  IF adj < 1 THEN 1 ELSE IF adj > 100 THEN 100 ELSE adj

\* ------------------------------------------------------------- wall tests
\* send_movement_packet's inline containment test; p is scaled by 2024
InWallLive(p, w) ==
    IF w.ws > w.we
    THEN (p >= w.ws * SpeedMax) \/ (p <= w.we * SpeedMax)
    ELSE (w.ws * SpeedMax <= p) /\ (p <= w.we * SpeedMax)

\* exit direction send_movement_packet derives from the position alone
ExitDirLive(cur, w) ==
    IF w.ws > w.we
    THEN (IF cur >= w.ws THEN -1 ELSE 1)
    ELSE (IF 2 * cur < w.ws + w.we THEN -1 ELSE 1)

\* the axis position send_movement_packet reads: parts[2] for pan, parts[3] otherwise
AxisPos(ax, p) == IF ax = "pan" THEN p.pan ELSE p.tilt

NoCur == -100000

\* get_zoom_packet: None for a direction that is neither 'in' nor 'out'
ZoomSpeed(pct, dir, ct) ==
    LET m == IF ct \in {"axis", "button"} THEN 10 * pct ELSE pct
    IN  IF dir = "in" THEN m ELSE -m

\* send_movement_packet without the test of lines 1818-1828
SendMovementPacketNoEntryTest(ax, dir, pct, ct, p, w, vw) ==
    IF ax \in PTR
    THEN LET sv == SpeedVal(ax, dir, pct)
             checked == vw /\ w.has /\ p.has
             cur == AxisPos(ax, p)
             curIn == InWallLive(cur * SpeedMax, w)
             expIn == InWallLive(cur * SpeedMax + sv * DegPerFull, w)
             blocked ==
                IF curIn THEN Sign(sv) # ExitDirLive(cur, w)
                ELSE FALSE
         IN  [kind |-> IF checked /\ blocked THEN "idle" ELSE "move",
              sv |-> sv, cur |-> IF checked THEN cur ELSE NoCur]
    ELSE IF ax = "zoom"
    THEN IF dir \in {"in", "out"}
         THEN [kind |-> "move", sv |-> ZoomSpeed(pct, dir, ct), cur |-> NoCur]
         ELSE [kind |-> "none", sv |-> 0, cur |-> NoCur]
    ELSE [kind |-> "none", sv |-> 0, cur |-> NoCur]

\* send_movement_packet: what is handed to send_apcr_command
\*   kind "move" = the movement packet, "idle" = the wall's idle packet,
\*   "none" = nothing (no packet could be built)
SendMovementPacket(ax, dir, pct, ct, p, w, vw) ==
    IF ax \in PTR
    THEN LET sv == SpeedVal(ax, dir, pct)
             checked == vw /\ w.has /\ p.has
             cur == AxisPos(ax, p)
             curIn == InWallLive(cur * SpeedMax, w)
             expIn == InWallLive(cur * SpeedMax + sv * DegPerFull, w)
             blocked ==
                IF curIn THEN Sign(sv) # ExitDirLive(cur, w)
                ELSE expIn
         IN  [kind |-> IF checked /\ blocked THEN "idle" ELSE "move",
              sv |-> sv, cur |-> IF checked THEN cur ELSE NoCur]
    ELSE IF ax = "zoom"
    THEN IF dir \in {"in", "out"}
         THEN [kind |-> "move", sv |-> ZoomSpeed(pct, dir, ct), cur |-> NoCur]
         ELSE [kind |-> "none", sv |-> 0, cur |-> NoCur]
    ELSE [kind |-> "none", sv |-> 0, cur |-> NoCur]

\* --------------------------------------------------------------- timers
\* state: "free", "armed" (started, not fired), "rc_send" / "rc_arm" (repeat
\* callback running), "ic_send" (idle-grace callback running), "dead"
FreeTimer == [kind |-> "free", state |-> "free", pct |-> 0, sent |-> 0]
Armed(k) == [kind |-> k, state |-> "armed", pct |-> 0, sent |-> 0]
Dead(k) == [kind |-> k, state |-> "dead", pct |-> 0, sent |-> 0]

\* Timer.cancel(): only a timer that has not fired yet is stopped
Cancel(tm, id) ==
    IF id # NoTimer /\ tm[id].state = "armed"
    THEN [tm EXCEPT ![id] = Dead(tm[id].kind)] ELSE tm

\* a dead Timer object nobody references any more is garbage
Collect(tm, s) ==
    [i \in TimerIds |->
        IF tm[i].state = "dead" /\ s.timer # i /\ s.idle_timer # i
        THEN FreeTimer ELSE tm[i]]

FreeIds(tm) == {i \in TimerIds : tm[i].state = "free"}
NewId(tm) == CHOOSE i \in FreeIds(tm) : \A j \in FreeIds(tm) : i <= j

PendingRepeat(tm) == {i \in TimerIds : tm[i].kind = "repeat" /\ tm[i].state = "armed"}
PendingIdle(tm) == {i \in TimerIds : tm[i].kind = "idle" /\ tm[i].state = "armed"}

\* ------------------------------------------------------------ observation
NoSend == [kind |-> "none", by |-> "none", sv |-> 0, cur |-> NoCur, quiet |-> FALSE]
Sent(pk, by) == [kind |-> pk.kind, by |-> by, sv |-> pk.sv, cur |-> pk.cur,
                 quiet |-> quiet]
IdlePk == [kind |-> "idle", sv |-> 0, cur |-> NoCur]

NoRet == [op |-> "none", eff |-> FALSE, sent |-> 0, act |-> FALSE, vals |-> FALSE,
          pendR |-> 0, pendI |-> 0, second |-> FALSE, firstEff |-> FALSE]
NoArg == [dir |-> "None", pct |-> 0, ct |-> "None", sent |-> 0, second |-> FALSE]
NoRep == [ran |-> FALSE, flag |-> FALSE, sent |-> 0, armed |-> 0, cum |-> FALSE]
NoObs == [ticked |-> FALSE, projIn |-> FALSE, curIn |-> FALSE]

InStart(p) == p \in {"su_write", "su_send", "su_timer", "su_idle"}
InStop(p) == p \in {"sm_write", "sm_timer", "sm_idle"}

IdleSt == [active |-> FALSE, direction |-> "None", percentage |-> 0,
           control_type |-> "None", timer |-> NoTimer, idle_timer |-> NoTimer]

\* The second axis a scenario drives next to `axis`, and its slot as it stands
\* after construction; timer / idle_timer say whether the handle is pending,
\* n counts the calls and ticks made on it, moved adds up the deltas of the
\* ticks since the axis last went from inactive to active.
Peer(ax) ==
    CASE ax = "pan" -> "tilt"
      [] ax = "tilt" -> "pan"
      [] ax = "roll" -> "zoom"
      [] OTHER -> "roll"

PeerIdle == [active |-> FALSE, direction |-> "None", percentage |-> 0,
             control_type |-> "None", timer |-> FALSE, idle_timer |-> FALSE,
             n |-> 0, moved |-> 0]

\* ---------------------------------------------------------------- Init
InitMotion ==
    /\ st = IdleSt
    /\ other = PeerIdle
    /\ timers = [i \in TimerIds |-> FreeTimer]
    /\ pc = [t \in Callers |-> "idle"]
    /\ arg = [t \in Callers |-> NoArg]
    /\ cumulative_delta = 0
    /\ predicted_block = FALSE
    /\ virtual_wall_tracker = "None"
    /\ lastSend = NoSend
    /\ quiet = FALSE
    /\ ret = NoRet
    /\ nops = 0
    /\ prevStop = [t \in Callers |-> "no"]
    /\ lastRep = NoRep
    /\ predObs = NoObs

\* no device list, no wall-function call observed
NoApcrs == <<>>
NoOut == [op |-> "none"]

InitAux ==
    /\ virtualwallpreset = FALSE
    /\ apcrs = NoApcrs
    /\ out = NoOut

\* no segment running, nothing sent, _localPan = 0.0, no sample to age
SegOff == [pc |-> "off"]
NoDev == [mode |-> "none"]
NoSent == [pan |-> "none", tilt |-> "none", roll |-> "none", zoom |-> "none",
           rel |-> {}, last |-> <<"none", "none">>]

InitRecall ==
    /\ seg = SegOff
    /\ dev = NoDev
    /\ sent = NoSent
    /\ localPan = 0
    /\ fdb_old = FALSE
    /\ recall_active = FALSE
    /\ rpc = [t \in {"joy", "console", "panel"} |-> "idle"]
    /\ rsent = [t \in {"joy", "console", "panel"} |-> 0]

\* ------------------------------------------------ start_or_update_movement
\* lines 316-364: compare with the stored state, replace the percentage by the
\* adaptive one, decide whether anything is to be done
\* lines 343-360: the percentage the call goes on with
AdaptedPercentage(ax, ad, p, pct) ==
    IF ax \in PTR /\ ad /\ p.has THEN CalculateAdaptiveSpeed(p.zoom, pct) ELSE pct

\* lines 317-321 and 359-360: the "changed" flag
StartChanged(s, dir, pct, ct, pct2) ==
    \/ s.direction # dir
    \/ s.percentage # pct
    \/ s.control_type # ct
    \/ s.percentage # pct2

StartCall(t, dir, pct, ct) ==
    /\ t \in callers /\ pc[t] = "idle"
    /\ nops < MaxOps /\ nops' = nops + 1
    /\ LET pct2 == AdaptedPercentage(axis, adaptive_speed, pos, pct)
           changed == StartChanged(st, dir, pct, ct, pct2)
       IN  IF changed \/ ~st.active
           THEN /\ pc' = [pc EXCEPT ![t] = "su_write"]
                /\ arg' = [arg EXCEPT ![t] = [dir |-> dir, pct |-> pct2, ct |-> ct,
                                              sent |-> 0, second |-> FALSE]]
                /\ ret' = NoRet
           ELSE /\ ret' =
                      [op |-> "start", eff |-> FALSE, sent |-> 0, act |-> st.active,
                       vals |-> TRUE,
                       pendR |-> Cardinality(PendingRepeat(timers)),
                       pendI |-> Cardinality(PendingIdle(timers)),
                       second |-> FALSE, firstEff |-> FALSE]
                /\ UNCHANGED <<pc, arg>>
    /\ quiet' = FALSE
    /\ prevStop' = [u \in Callers |-> "no"]
    /\ UNCHANGED <<st, timers, cumulative_delta>>
    /\ UNCHANGED <<cfgVars, pos, predicted_block, predictor, virtual_wall_tracker, recallVars>>
    /\ predObs' = NoObs
    /\ lastSend' = NoSend
    /\ lastRep' = NoRep

\* lines 365-368
SuWrite(t) ==
    /\ pc[t] = "su_write"
    /\ st' = [st EXCEPT !.active = TRUE, !.direction = arg[t].dir,
                        !.percentage = arg[t].pct, !.control_type = arg[t].ct]
    /\ pc' = [pc EXCEPT ![t] = "su_send"]
    /\ UNCHANGED <<timers, arg, cumulative_delta, quiet, prevStop>>
    /\ UNCHANGED <<cfgVars, pos, predicted_block, predictor, virtual_wall_tracker, recallVars>>
    /\ predObs' = NoObs
    /\ UNCHANGED nops
    /\ lastSend' = NoSend
    /\ ret' = NoRet
    /\ lastRep' = NoRep

\* line 375
SuSend(t) ==
    /\ pc[t] = "su_send"
    /\ LET pk == SendMovementPacket(axis, arg[t].dir, arg[t].pct, arg[t].ct,
                                    pos, wall, virtualwall)
       IN  /\ lastSend' = IF pk.kind = "none" THEN NoSend ELSE Sent(pk, "start")
           /\ arg' = [arg EXCEPT ![t].sent = IF pk.kind = "none" THEN @ ELSE @ + 1]
    /\ pc' = [pc EXCEPT ![t] = "su_timer"]
    /\ UNCHANGED <<st, timers, cumulative_delta, quiet, prevStop>>
    /\ UNCHANGED <<cfgVars, pos, predicted_block, predictor, virtual_wall_tracker, recallVars>>
    /\ predObs' = NoObs
    /\ UNCHANGED nops
    /\ ret' = NoRet
    /\ lastRep' = NoRep

\* lines 377-381: cancel the stored timer, arm a new repeat timer
SuTimer(t) ==
    /\ pc[t] = "su_timer"
    /\ LET tm1 == Collect(Cancel(timers, st.timer), [st EXCEPT !.timer = NoTimer])
       IN  /\ FreeIds(tm1) # {}
           /\ timers' = [tm1 EXCEPT ![NewId(tm1)] = Armed("repeat")]
           /\ st' = [st EXCEPT !.timer = NewId(tm1)]
    /\ pc' = [pc EXCEPT ![t] = "su_idle"]
    /\ UNCHANGED <<arg, cumulative_delta, quiet, prevStop>>
    /\ UNCHANGED <<cfgVars, pos, predicted_block, predictor, virtual_wall_tracker, recallVars>>
    /\ predObs' = NoObs
    /\ UNCHANGED nops
    /\ lastSend' = NoSend
    /\ ret' = NoRet
    /\ lastRep' = NoRep

\* lines 383-385: cancel the idle-grace timer; the call returns
SuIdle(t) ==
    /\ pc[t] = "su_idle"
    /\ st' = [st EXCEPT !.idle_timer = NoTimer]
    /\ timers' = Collect(Cancel(timers, st.idle_timer), st')
    /\ pc' = [pc EXCEPT ![t] = "idle"]
    /\ ret' =
          [op |-> "start", eff |-> TRUE, sent |-> arg[t].sent, act |-> st'.active,
           vals |-> /\ st'.direction = arg[t].dir
                    /\ st'.percentage = arg[t].pct
                    /\ st'.control_type = arg[t].ct,
           pendR |-> Cardinality(PendingRepeat(timers')),
           pendI |-> Cardinality(PendingIdle(timers')),
           second |-> FALSE, firstEff |-> FALSE]
    /\ arg' = [arg EXCEPT ![t] = NoArg]
    /\ UNCHANGED <<cumulative_delta, quiet, prevStop>>
    /\ UNCHANGED <<cfgVars, pos, predicted_block, predictor, virtual_wall_tracker, recallVars>>
    /\ predObs' = NoObs
    /\ UNCHANGED nops
    /\ lastSend' = NoSend
    /\ lastRep' = NoRep

\* ----------------------------------------------------------- stop_movement
\* stop_movement without the test of line 1870
StopCallNoActiveTest(t) ==
    /\ t \in callers /\ pc[t] = "idle"
    /\ nops < MaxOps /\ nops' = nops + 1
    /\ lastSend' = Sent(IdlePk, "stop")
    /\ pc' = [pc EXCEPT ![t] = "sm_write"]
    /\ arg' = [arg EXCEPT ![t] = [NoArg EXCEPT !.sent = 1,
                                    !.second = prevStop[t] \in {"done", "noop"}]]
    /\ prevStop' = [prevStop EXCEPT ![t] =
                       IF \A u \in Callers : ~InStart(pc[u]) THEN "in" ELSE "no"]
    /\ ret' = NoRet
    /\ lastRep' = NoRep
    /\ predObs' = NoObs
    /\ UNCHANGED <<st, timers, cumulative_delta, quiet>>
    /\ UNCHANGED <<cfgVars, pos, predicted_block, predictor, virtual_wall_tracker, recallVars>>

\* lines 1869-1878: nothing to do on an inactive axis, else send the idle packet
StopCall(t) ==
    /\ t \in callers /\ pc[t] = "idle"
    /\ nops < MaxOps /\ nops' = nops + 1
    /\ LET undisturbed == \A u \in Callers : ~InStart(pc[u])
           second == prevStop[t] \in {"done", "noop"}
       IN  IF st.active
           THEN /\ lastSend' = Sent(IdlePk, "stop")
                /\ pc' = [pc EXCEPT ![t] = "sm_write"]
                /\ arg' = [arg EXCEPT ![t] = [NoArg EXCEPT !.sent = 1, !.second = second]]
                /\ prevStop' = [prevStop EXCEPT ![t] = IF undisturbed THEN "in" ELSE "no"]
                /\ ret' = NoRet
                /\ UNCHANGED quiet
           ELSE /\ ret' =
                      [op |-> "stop", eff |-> FALSE, sent |-> 0, act |-> st.active,
                       vals |-> TRUE,
                       pendR |-> Cardinality(PendingRepeat(timers)),
                       pendI |-> Cardinality(PendingIdle(timers)),
                       second |-> second, firstEff |-> prevStop[t] = "done"]
                /\ prevStop' = [prevStop EXCEPT ![t] = IF undisturbed THEN "noop" ELSE "no"]
                /\ quiet' = undisturbed
                /\ lastSend' = NoSend
                /\ UNCHANGED <<pc, arg>>
    /\ UNCHANGED <<st, timers, cumulative_delta>>
    /\ UNCHANGED <<cfgVars, pos, predicted_block, predictor, virtual_wall_tracker, recallVars>>
    /\ predObs' = NoObs
    /\ lastRep' = NoRep

\* lines 1880-1883
SmWrite(t) ==
    /\ pc[t] = "sm_write"
    /\ st' = [st EXCEPT !.active = FALSE, !.direction = "None",
                        !.percentage = 0, !.control_type = "None"]
    /\ pc' = [pc EXCEPT ![t] = "sm_timer"]
    /\ UNCHANGED <<timers, arg, cumulative_delta, quiet, prevStop>>
    /\ UNCHANGED <<cfgVars, pos, predicted_block, predictor, virtual_wall_tracker, recallVars>>
    /\ predObs' = NoObs
    /\ UNCHANGED nops
    /\ lastSend' = NoSend
    /\ ret' = NoRet
    /\ lastRep' = NoRep

\* lines 1885-1887
SmTimer(t) ==
    /\ pc[t] = "sm_timer"
    /\ st' = [st EXCEPT !.timer = NoTimer]
    /\ timers' = Collect(Cancel(timers, st.timer), st')
    /\ pc' = [pc EXCEPT ![t] = "sm_idle"]
    /\ UNCHANGED <<arg, cumulative_delta, quiet, prevStop>>
    /\ UNCHANGED <<cfgVars, pos, predicted_block, predictor, virtual_wall_tracker, recallVars>>
    /\ predObs' = NoObs
    /\ UNCHANGED nops
    /\ lastSend' = NoSend
    /\ ret' = NoRet
    /\ lastRep' = NoRep

\* lines 1891-1898: cancel the stored idle-grace timer, arm a new one; return
SmIdle(t) ==
    /\ pc[t] = "sm_idle"
    /\ LET tm1 == Collect(Cancel(timers, st.idle_timer), [st EXCEPT !.idle_timer = NoTimer])
       IN  /\ FreeIds(tm1) # {}
           /\ timers' = [tm1 EXCEPT ![NewId(tm1)] = Armed("idle")]
           /\ st' = [st EXCEPT !.idle_timer = NewId(tm1)]
    /\ pc' = [pc EXCEPT ![t] = "idle"]
    /\ ret' =
          [op |-> "stop", eff |-> TRUE, sent |-> arg[t].sent, act |-> st'.active,
           vals |-> TRUE,
           pendR |-> Cardinality(PendingRepeat(timers')),
           pendI |-> Cardinality(PendingIdle(timers')),
           second |-> arg[t].second, firstEff |-> FALSE]
    /\ arg' = [arg EXCEPT ![t] = NoArg]
    /\ prevStop' = [prevStop EXCEPT ![t] = IF @ = "in" THEN "done" ELSE "no"]
    /\ quiet' = \A u \in Callers : ~InStart(pc[u])
    /\ UNCHANGED <<cumulative_delta>>
    /\ UNCHANGED <<cfgVars, pos, predicted_block, predictor, virtual_wall_tracker, recallVars>>
    /\ predObs' = NoObs
    /\ UNCHANGED nops
    /\ lastSend' = NoSend
    /\ lastRep' = NoRep

\* ---------------------------------------------------------- repeat_command
\* The timer fires and the callback runs lines 764-802: on an active axis it
\* recomputes the percentage and the delta and adds it to cumulative_delta.
RepeatFire(id) ==
    /\ timers[id].kind = "repeat" /\ timers[id].state = "armed"
    /\ nops < MaxOps /\ nops' = nops + 1
    /\ IF st.active
       THEN LET adapt == axis \in PTR /\ adaptive_speed /\ pos.has
                pctc == IF adapt THEN CalculateAdaptiveSpeed(pos.zoom, st.percentage)
                        ELSE st.percentage
                sv == IF axis \in {"pan", "tilt"}
                      THEN SpeedVal(axis, st.direction, pctc) ELSE 0
            IN  /\ cumulative_delta' = cumulative_delta + sv
                /\ timers' = [timers EXCEPT ![id] =
                       [kind |-> "repeat", state |-> "rc_send", pct |-> pctc, sent |-> 0]]
       ELSE /\ timers' = Collect([timers EXCEPT ![id] = Dead("repeat")], st)
            /\ UNCHANGED cumulative_delta
    /\ UNCHANGED <<st, pc, arg, quiet, prevStop>>
    /\ UNCHANGED <<cfgVars, pos, predicted_block, predictor, virtual_wall_tracker, recallVars>>
    /\ predObs' = NoObs
    /\ lastSend' = NoSend
    /\ ret' = NoRet
    /\ lastRep' = NoRep

\* RepeatSend storing the control kind it sent with next to the percentage
RepeatSendStoresKind(id) ==
    /\ timers[id].state = "rc_send"
    /\ IF predicted_block
       THEN /\ timers' = Collect([timers EXCEPT ![id] = Dead("repeat")], st)
            /\ lastRep' = [ran |-> TRUE, flag |-> TRUE, sent |-> 0, armed |-> 0,
                           cum |-> TRUE]
            /\ lastSend' = NoSend
            /\ UNCHANGED st
       ELSE LET ct == IF st.control_type = "None" THEN "axis" ELSE st.control_type
                pk == SendMovementPacket(axis, st.direction, timers[id].pct, ct,
                                         pos, wall, virtualwall)
            IN  /\ st' = [st EXCEPT !.percentage = timers[id].pct, !.control_type = ct]
                /\ lastSend' = IF pk.kind = "none" THEN NoSend ELSE Sent(pk, "repeat")
                /\ timers' = [timers EXCEPT ![id].state = "rc_arm",
                                            ![id].sent = IF pk.kind = "none" THEN 0 ELSE 1]
                /\ lastRep' = NoRep
    /\ UNCHANGED <<pc, arg, cumulative_delta, quiet, prevStop>>
    /\ UNCHANGED <<cfgVars, pos, predicted_block, predictor, virtual_wall_tracker, recallVars>>
    /\ predObs' = NoObs
    /\ UNCHANGED nops
    /\ ret' = NoRet

\* lines 804-812: stop on a predicted block, else store the percentage and
\* send the command built from the stored direction and control type
RepeatSend(id) ==
    /\ timers[id].state = "rc_send"
    /\ IF predicted_block
       THEN /\ timers' = Collect([timers EXCEPT ![id] = Dead("repeat")], st)
            /\ lastRep' = [ran |-> TRUE, flag |-> TRUE, sent |-> 0, armed |-> 0,
                           cum |-> TRUE]
            /\ lastSend' = NoSend
            /\ UNCHANGED st
       ELSE LET pk == SendMovementPacket(axis, st.direction, timers[id].pct,
                         IF st.control_type = "None" THEN "axis" ELSE st.control_type,
                         pos, wall, virtualwall)
            IN  /\ st' = [st EXCEPT !.percentage = timers[id].pct]
                /\ lastSend' = IF pk.kind = "none" THEN NoSend ELSE Sent(pk, "repeat")
                /\ timers' = [timers EXCEPT ![id].state = "rc_arm",
                                            ![id].sent = IF pk.kind = "none" THEN 0 ELSE 1]
                /\ lastRep' = NoRep
    /\ UNCHANGED <<pc, arg, cumulative_delta, quiet, prevStop>>
    /\ UNCHANGED <<cfgVars, pos, predicted_block, predictor, virtual_wall_tracker, recallVars>>
    /\ predObs' = NoObs
    /\ UNCHANGED nops
    /\ ret' = NoRet

\* lines 813-814: arm the next repeat timer and store it
RepeatArm(id) ==
    /\ timers[id].state = "rc_arm"
    /\ LET tm1 == Collect([timers EXCEPT ![id] = Dead("repeat")],
                          [st EXCEPT !.timer = NoTimer])
       IN  /\ timers' = [tm1 EXCEPT ![NewId(tm1)] = Armed("repeat")]
           /\ st' = [st EXCEPT !.timer = NewId(tm1)]
    /\ lastRep' = [ran |-> TRUE, flag |-> FALSE, sent |-> timers[id].sent, armed |-> 1,
                   cum |-> TRUE]
    /\ UNCHANGED <<pc, arg, cumulative_delta, quiet, prevStop>>
    /\ UNCHANGED <<cfgVars, pos, predicted_block, predictor, virtual_wall_tracker, recallVars>>
    /\ predObs' = NoObs
    /\ UNCHANGED nops
    /\ lastSend' = NoSend
    /\ ret' = NoRet

\* ------------------------------------------------ send_idle_if_still_inactive
\* The idle-grace timer fires; line 1635 tests the axis
IdleFire(id) ==
    /\ timers[id].kind = "idle" /\ timers[id].state = "armed"
    /\ timers' = IF ~st.active
                 THEN [timers EXCEPT ![id].state = "ic_send"]
                 ELSE Collect([timers EXCEPT ![id] = Dead("idle")], st)
    /\ UNCHANGED <<st, pc, arg, cumulative_delta, quiet, prevStop>>
    /\ UNCHANGED <<cfgVars, pos, predicted_block, predictor, virtual_wall_tracker, recallVars>>
    /\ predObs' = NoObs
    /\ UNCHANGED nops
    /\ lastSend' = NoSend
    /\ ret' = NoRet
    /\ lastRep' = NoRep

\* lines 1636-1640
IdleSend(id) ==
    /\ timers[id].state = "ic_send"
    /\ lastSend' = Sent(IdlePk, "grace")
    /\ timers' = Collect([timers EXCEPT ![id] = Dead("idle")], st)
    /\ UNCHANGED <<st, pc, arg, cumulative_delta, quiet, prevStop>>
    /\ UNCHANGED <<cfgVars, pos, predicted_block, predictor, virtual_wall_tracker, recallVars>>
    /\ predObs' = NoObs
    /\ UNCHANGED nops
    /\ ret' = NoRet
    /\ lastRep' = NoRep

\* ------------------------------------------------- the same calls on a second axis
\* The three handlers on the slot of Peer(axis), each run from its first line
\* to its last by the one thread that drives that axis.
\* start_or_update_movement, lines 316-385
StartSlot(s, ax, ad, p, dir, pct, ct) ==
    LET pct2 == AdaptedPercentage(ax, ad, p, pct)
    IN  IF StartChanged(s, dir, pct, ct, pct2) \/ ~s.active
        THEN [s EXCEPT !.active = TRUE, !.direction = dir, !.percentage = pct2,
                       !.control_type = ct, !.timer = TRUE, !.idle_timer = FALSE]
        ELSE s

\* stop_movement, lines 1869-1898
StopSlot(s) ==
    IF s.active
    THEN [s EXCEPT !.active = FALSE, !.direction = "None", !.percentage = 0,
                   !.control_type = "None", !.timer = FALSE, !.idle_timer = TRUE]
    ELSE s

\* repeat_command, lines 769-786: the percentage the tick goes on with
TickPercentage(s, ax, ad, p) ==
    IF ax \in PTR /\ ad /\ p.has THEN CalculateAdaptiveSpeed(p.zoom, s.percentage)
    ELSE s.percentage

\* repeat_command, lines 789-799: command_delta in speed_val units
TickDelta(s, ax, ad, p) ==
    IF s.active /\ ax \in {"pan", "tilt"}
    THEN SpeedVal(ax, s.direction, TickPercentage(s, ax, ad, p))
    ELSE 0

\* repeat_command, lines 767 and 804-814: what the tick leaves in the slot
TickSlot(s, ax, ad, p, pb) ==
    IF s.active /\ ~pb
    THEN [s EXCEPT !.percentage = TickPercentage(s, ax, ad, p), !.timer = TRUE]
    ELSE [s EXCEPT !.timer = FALSE]

PeerFrame ==
    /\ lastSend' = NoSend /\ ret' = NoRet /\ lastRep' = NoRep /\ predObs' = NoObs
    /\ UNCHANGED <<st, timers, pc, arg, quiet, nops, prevStop>>
    /\ UNCHANGED <<axis, callers, wall, virtualwall, adaptive_speed,
                   virtualwallpreset, apcrs, segVars, feedAux, out>>
    /\ UNCHANGED <<pos, predicted_block, predictor, virtual_wall_tracker, recallVars>>

PeerStart(dir, pct, ct) ==
    /\ other.n + nops < MaxPeerOps
    /\ other' = [StartSlot(other, Peer(axis), adaptive_speed, pos, dir, pct, ct)
                    EXCEPT !.n = @ + 1, !.moved = IF other.active THEN @ ELSE 0]
    /\ UNCHANGED cumulative_delta
    /\ PeerFrame

PeerStop ==
    /\ other.n + nops < MaxPeerOps
    /\ other' = [StopSlot(other) EXCEPT !.n = @ + 1]
    /\ UNCHANGED cumulative_delta
    /\ PeerFrame

\* the peer's repeat timer fires
PeerTick ==
    /\ other.timer
    /\ other.n + nops < MaxPeerOps
    /\ cumulative_delta' =
          cumulative_delta + TickDelta(other, Peer(axis), adaptive_speed, pos)
    /\ other' = [TickSlot(other, Peer(axis), adaptive_speed, pos, predicted_block)
                    EXCEPT !.n = @ + 1,
                           !.moved = @ + TickDelta(other, Peer(axis), adaptive_speed, pos)]
    /\ PeerFrame

\* ------------------------------------------------------------ position feed
FeedSamples == {[has |-> TRUE, pan |-> v, tilt |-> v, roll |-> 0, zoom |-> ZoomNativeMin] :
                    v \in FeedVals}
NoPos == [has |-> FALSE, pan |-> 0, tilt |-> 0, roll |-> 0, zoom |-> ZoomNativeMin]

\* parse_fdb_message: the latest sample replaces the cached one
Feed(s) ==
    /\ pos' = s
    /\ pos # s \/ fdb_old
    /\ localPan' = s.pan
    /\ fdb_old' = FALSE
    /\ lastSend' = NoSend /\ ret' = NoRet /\ lastRep' = NoRep /\ predObs' = NoObs
    /\ out' = NoOut
    /\ UNCHANGED <<motionCore, axis, callers, wall, virtualwall, adaptive_speed,
                   virtualwallpreset, apcrs, segVars, other, predicted_block, predictor,
                   virtual_wall_tracker, recallVars>>

\* ------------------------------------------------- update_virtual_wall_state
\* controls.inWall: the bounds are normalised and ordered, the angle is not;
\* x is scaled by 2024
InWallNorm(x, w) ==
    LET a == w.ws % 360
        b == w.we % 360
        lower == IF a <= b THEN a ELSE b
        upper == IF a <= b THEN b ELSE a
    IN  lower * SpeedMax <= x /\ x <= upper * SpeedMax

UseAbsolute(w) == w.ws < 0 \/ w.ws >= 360 \/ w.we < 0 \/ w.we >= 360

\* pos_in_wall (lines 514-524); x and margin m are scaled by 2024
PosInWall(x, w, m) ==
    IF UseAbsolute(w)
    THEN IF w.ws > w.we
         THEN (x >= w.ws * SpeedMax - m) \/ (x <= w.we * SpeedMax + m)
         ELSE (w.ws * SpeedMax - m <= x) /\ (x <= w.we * SpeedMax + m)
    ELSE InWallNorm(x, w)

\* The tracker slot is None ("None"), an empty dict ("empty") or holds an
\* entry_direction ("pos" = 1, "neg" = -1); entry_position is written with it
\* and never read.
TrackerDir(tr) == IF tr = "pos" THEN 1 ELSE IF tr = "neg" THEN -1 ELSE 0
DirTracker(d) == IF d > 0 THEN "pos" ELSE "neg"

\* update_virtual_wall_state without the early return of lines 477-494
UpdateVirtualWallStateNoSwitchTest(tr, cur, delta, w, vw, m) ==
    LET clear == [block |-> FALSE, trigger |-> FALSE, corr |-> 0,
                  tracker |-> "empty", raised |-> FALSE]
        curIn == PosInWall(cur, w, m)
        expIn == PosInWall(cur + delta, w, m)
        tr2 == IF tr = "empty" THEN DirTracker(delta) ELSE tr
        entry == TrackerDir(tr2)
        target == IF UseAbsolute(w)
                  THEN IF w.ws > w.we
                       THEN (IF entry > 0 THEN w.we + 1 ELSE w.ws - 1)
                       ELSE (IF entry > 0 THEN w.ws - 1 ELSE w.we + 1)
                  ELSE IF entry > 0 THEN ((w.ws % 360) - 1) % 360
                       ELSE ((w.we % 360) + 1) % 360
        corr == ((target * SpeedMax - cur + 540 * SpeedMax) % (360 * SpeedMax))
                    - 180 * SpeedMax
    IN  IF ~curIn /\ ~expIn THEN clear
        ELSE IF tr = "None"
        THEN [block |-> FALSE, trigger |-> FALSE, corr |-> 0,
              tracker |-> tr, raised |-> TRUE]
        ELSE IF ~curIn
        THEN [block |-> TRUE, trigger |-> TRUE, corr |-> 0,
              tracker |-> DirTracker(delta), raised |-> FALSE]
        ELSE IF Sign(delta) = -entry
        THEN [block |-> FALSE, trigger |-> FALSE, corr |-> 0,
              tracker |-> tr2, raised |-> FALSE]
        ELSE [block |-> TRUE, trigger |-> TRUE, corr |-> corr,
              tracker |-> tr2, raised |-> FALSE]

\* update_virtual_wall_state (lines 462-603); cur, delta and margin are scaled
\* by 2024.  raised = the TypeError of using a None tracker slot as a dict.
UpdateVirtualWallState(tr, cur, delta, w, vw, m) ==
    LET clear == [block |-> FALSE, trigger |-> FALSE, corr |-> 0,
                  tracker |-> "empty", raised |-> FALSE]
        curIn == PosInWall(cur, w, m)
        expIn == PosInWall(cur + delta, w, m)
        tr2 == IF tr = "empty" THEN DirTracker(delta) ELSE tr
        entry == TrackerDir(tr2)
        target == IF UseAbsolute(w)
                  THEN IF w.ws > w.we
                       THEN (IF entry > 0 THEN w.we + 1 ELSE w.ws - 1)
                       ELSE (IF entry > 0 THEN w.ws - 1 ELSE w.we + 1)
                  ELSE IF entry > 0 THEN ((w.ws % 360) - 1) % 360
                       ELSE ((w.we % 360) + 1) % 360
        corr == ((target * SpeedMax - cur + 540 * SpeedMax) % (360 * SpeedMax))
                    - 180 * SpeedMax
    IN  IF ~vw \/ ~w.has THEN clear
        ELSE IF ~curIn /\ ~expIn THEN clear
        ELSE IF tr = "None"
        THEN [block |-> FALSE, trigger |-> FALSE, corr |-> 0,
              tracker |-> tr, raised |-> TRUE]
        ELSE IF ~curIn
        THEN [block |-> TRUE, trigger |-> TRUE, corr |-> 0,
              tracker |-> DirTracker(delta), raised |-> FALSE]
        ELSE IF Sign(delta) = -entry
        THEN [block |-> FALSE, trigger |-> FALSE, corr |-> 0,
              tracker |-> tr2, raised |-> FALSE]
        ELSE [block |-> TRUE, trigger |-> TRUE, corr |-> corr,
              tracker |-> tr2, raised |-> FALSE]

\* ------------------------------------------ the guard called on its own
\* Wall configurations: none, normalized, normalized with start > end,
\* absolute (a bound outside [0,360)), absolute with start > end.
GuardWalls == {NoWall,
               [has |-> TRUE, ws |-> 100, we |-> 200],
               [has |-> TRUE, ws |-> 300, we |-> 60],
               [has |-> TRUE, ws |-> -30, we |-> 30],
               [has |-> TRUE, ws |-> 370, we |-> 10]}
GuardPosVals == {-31, 5, 31, 50, 99, 150, 201, 350}
GuardSamples == {[has |-> TRUE, pan |-> v, tilt |-> v, roll |-> 0, zoom |-> ZoomNativeMin] :
                    v \in GuardPosVals}
Margins == {0, 5}

\* the positions the containment test is asked about: the samples and, for a
\* configured wall, the bounds widened by the margin and one unit beyond
ProbePoints(w, m) ==
    GuardPosVals \cup
    (IF w.has THEN {w.ws - m - 1, w.ws - m, w.we + m, w.we + m + 1} ELSE {})

\* update_virtual_wall_state(axis, current_pos, command_delta, apcr,
\* virtualwall_active, margin) for the command (dir, pct) at the cached position
GuardCall(dir, pct, m) ==
    LET cur == AxisPos(axis, pos)
        delta == SpeedVal(axis, dir, pct) * DegPerFull
        r == UpdateVirtualWallState(virtual_wall_tracker, cur * SpeedMax, delta,
                                    wall, virtualwall, m * SpeedMax)
    IN  /\ pos.has
        /\ virtual_wall_tracker' = r.tracker
        /\ out' = [op |-> "guard", tr |-> virtual_wall_tracker, cur |-> cur,
                   delta |-> delta, m |-> m, block |-> r.block,
                   trigger |-> r.trigger, corr |-> r.corr, raised |-> r.raised,
                   tracker |-> r.tracker, vw |-> virtualwall,
                   curIn |-> wall.has /\ PosInWall(cur * SpeedMax, wall, m * SpeedMax)]
        /\ UNCHANGED <<motionVars, recallVars, segVars, other, feedAux, axis, callers, wall, virtualwall,
                       adaptive_speed, virtualwallpreset, apcrs, pos,
                       predicted_block, predictor, predObs>>

\* pos_in_wall(x) of a guard call with margin m
ContainCall(x, m) ==
    /\ wall.has
    /\ out' = [op |-> "contains", x |-> x, m |-> m,
               in |-> PosInWall(x * SpeedMax, wall, m * SpeedMax)]
    /\ UNCHANGED <<motionVars, recallVars, segVars, other, feedAux, axis, callers, wall, virtualwall,
                   adaptive_speed, virtualwallpreset, apcrs, pos,
                   predicted_block, predictor, virtual_wall_tracker, predObs>>

\* send_movement_packet(axis, dir, pct, ...) at the cached position
SendCall(dir, pct) ==
    LET pk == SendMovementPacket(axis, dir, pct, "axis", pos, wall, virtualwall)
    IN  /\ out' = [op |-> "send", kind |-> pk.kind, sv |-> pk.sv,
                   cur |-> AxisPos(axis, pos), vw |-> virtualwall]
        /\ UNCHANGED <<motionVars, recallVars, segVars, other, feedAux, axis, callers, wall, virtualwall,
                       adaptive_speed, virtualwallpreset, apcrs, pos,
                       predicted_block, predictor, virtual_wall_tracker, predObs>>

\* ----------------------------------------------------- virtual_wall_predictor
\* One pass of the loop (lines 410-449).  Without a cached sample current_pos
\* is unbound at line 433; with one, the call at line 445 passes six positional
\* arguments and virtualwall_active again by keyword, a TypeError.  Either way
\* the thread ends before line 451 and predicted_block is not written.
PredictorTick ==
    /\ predictor = "running"
    /\ predictor' = "dead"
    /\ predObs' =
         LET chk == pos.has /\ wall.has /\ virtualwall
             cur == AxisPos(axis, pos) * SpeedMax
         IN  [ticked |-> TRUE,
              projIn |-> chk /\ InWallLive(cur + cumulative_delta * DegPerFull, wall),
              curIn |-> chk /\ InWallLive(cur, wall)]
    /\ UNCHANGED predicted_block
    /\ lastSend' = NoSend /\ ret' = NoRet /\ lastRep' = NoRep
    /\ UNCHANGED <<motionCore, cfgVars, pos, virtual_wall_tracker, recallVars>>

\* ---------------------------------------------- active_track_position_monitor
\* Devices by camid; pan samples and wall bounds in tenths of a degree, as the
\* FDB frames and settings.json hold them.
Devs == {1, 2}
MonWalls == {NoWall, [has |-> TRUE, ws |-> 1000, we |-> 2000],
                     [has |-> TRUE, ws |-> 3000, we |-> 600]}
NoSample == [has |-> FALSE, pan |-> 0]
MonSamples == {[has |-> TRUE, pan |-> v] : v \in {500, 1500, 3500}}
TenthsPerTurn == 3600

\* (x / 10.0 + 360) % 360, kept in tenths
Norm10(x) == (x + TenthsPerTurn) % TenthsPerTurn

\* lines 726-737 with the second scenario left out
MonitorInWallNoWrap(pan, w) ==
    LET p == Norm10(pan)
        a == Norm10(w.ws)
        b == Norm10(w.we)
    IN  a <= p /\ p <= b

\* lines 726-737: in_wall of the normalized pan against the normalized bounds
MonitorInWall(pan, w) ==
    LET p == Norm10(pan)
        a == Norm10(w.ws)
        b == Norm10(w.we)
    IN  IF a <= b THEN a <= p /\ p <= b
        ELSE p >= a \/ p <= b

\* the position one device's check works on: the cached sample, else the
\* answer of get_current_position (ans), which may be missing
MonitorSample(a, ans) == IF a.sample.has THEN a.sample ELSE ans

\* lines 667-739 for one device: the check reaches "if in_wall" and it is true
MonitorTrips(a, ans) ==
    /\ a.active_track
    /\ MonitorSample(a, ans).has
    /\ a.wall.has
    /\ MonitorInWall(MonitorSample(a, ans).pan, a.wall)

\* One pass of the monitor loop over settings["apcrs"]; ans[d] is what
\* get_current_position returns for device d when asked.
MonitorTick(ans) ==
    LET enabled == virtualwall \/ virtualwallpreset
        trips == {d \in Devs : enabled /\ MonitorTrips(apcrs[d], ans[d])}
    IN  /\ apcrs' = [d \in Devs |->
                       IF d \in trips
                       THEN [apcrs[d] EXCEPT !.active_track = FALSE]
                       ELSE apcrs[d]]
        /\ out' = [op |-> "tick", enabled |-> enabled, before |-> apcrs,
                   used |-> [d \in Devs |-> MonitorSample(apcrs[d], ans[d])],
                   cmds |-> [d \in Devs |-> IF d \in trips THEN 1 ELSE 0]]
        /\ UNCHANGED <<motionVars, recallVars, segVars, other, feedAux, axis, callers, wall, virtualwall,
                       adaptive_speed, virtualwallpreset, pos, predicted_block,
                       predictor, virtual_wall_tracker, predObs>>

\* toggle_active_track for device d
ToggleActiveTrack(d) ==
    /\ apcrs' = [apcrs EXCEPT ![d].active_track = ~@]
    /\ out' = NoOut
    /\ UNCHANGED <<motionVars, recallVars, segVars, other, feedAux, axis, callers, wall, virtualwall,
                   adaptive_speed, virtualwallpreset, pos, predicted_block,
                   predictor, virtual_wall_tracker, predObs>>

\* parse_fdb_message for a frame of device d
FeedDev(d, s) ==
    /\ apcrs[d].sample # s
    /\ apcrs' = [apcrs EXCEPT ![d].sample = s]
    /\ localPan' = s.pan \div 10
    /\ out' = NoOut
    /\ UNCHANGED <<motionVars, recallVars, segVars, other, fdb_old, axis, callers, wall, virtualwall,
                   adaptive_speed, virtualwallpreset, pos, predicted_block,
                   predictor, virtual_wall_tracker, predObs>>

\* ---------------------------------------------------------- shortest_rotation
\* Angles of the planner are kept in hundredths of a degree, which is exact for
\* integer inputs in degrees or in tenths.
Cent == 100
Turn == 36000
HalfTurn == 18000
ArcStep == 200
NativeLimit == 359

\* "x / 10.0 if abs(x) > 359 else x" for an integer x, in hundredths
Deg(x) == IF Abs(x) > NativeLimit THEN 10 * x ELSE Cent * x

\* the same conversion for a value x given in hundredths of its own unit, so
\* that fractional angles such as 359.5 can be passed
DegC(xc) == IF Abs(xc) > NativeLimit * Cent THEN TruncDiv(xc, 10) ELSE xc

\* presets.norm360 on hundredths
PNorm(h) == h % Turn

\* presets.native_to_normalized applied to an angle h already in hundredths
NativeToNormalized(h) ==
    IF Abs(h) > NativeLimit * Cent THEN TruncDiv(h, 10) % Turn ELSE h % Turn

\* presets.inWall: the two normalized bounds are ordered first, so the second
\* test of lines 825-829 is never taken
PresetsInWall(h, w) ==
    LET x == NativeToNormalized(h)
        a == NativeToNormalized(Deg(w.ws))
        b == NativeToNormalized(Deg(w.we))
        lo == IF a <= b THEN a ELSE b
        hi == IF a <= b THEN b ELSE a
    IN  w.has /\ lo <= x /\ x <= hi

\* sample_arc_normalized(start, end, direction, step): the points of the list
ArcSamples(st0, en, dir) ==
    IF dir = 1
    THEN IF en > st0
         THEN {st0 + k * ArcStep : k \in 0..((en - st0) \div ArcStep)} \cup {en}
         ELSE {st0 + k * ArcStep : k \in 0..((Turn - 1 - st0) \div ArcStep)}
              \cup {0}
              \cup {k * ArcStep : k \in 0..(en \div ArcStep)} \cup {en}
    ELSE IF en < st0
         THEN {st0 - k * ArcStep : k \in 0..((st0 - en) \div ArcStep)} \cup {en}
         ELSE {st0 - k * ArcStep : k \in 0..(st0 \div ArcStep)}
              \cup (IF st0 > 0 THEN {0} ELSE {})
              \cup {(Turn - k * ArcStep) % Turn :
                        k \in 1..((Turn - en) \div ArcStep)}
              \cup {en % Turn}

\* rotation_crosses_wall(start, end, direction, w1, w2)
RotationCrossesWall(a, b, dir, w) ==
    LET sn == NativeToNormalized(a)
        en == NativeToNormalized(b)
        w1 == NativeToNormalized(Deg(w.ws))
        w2 == NativeToNormalized(Deg(w.we))
        lo == IF w1 <= w2 THEN w1 ELSE w2
        hi == IF w1 <= w2 THEN w2 ELSE w1
    IN  w.has /\ \E pt \in ArcSamples(sn, en, dir) : lo <= pt /\ pt <= hi

\* (None, None), with the return statement that produced it: "target" for
\* line 414, "blocked" for line 486
NoPlan(why) == [ok |-> FALSE, why |-> why, rot |-> 0, dir |-> 0, exit |-> FALSE,
                exitPt |-> 0, exitRot |-> 0, restRot |-> 0]
Plan(rot, dir) == [ok |-> TRUE, why |-> "none", rot |-> rot, dir |-> dir,
                   exit |-> FALSE, exitPt |-> 0, exitRot |-> 0, restRot |-> 0]

\* the exit point placed on the bound itself instead of one degree beyond it
ExitPtOnBound(lower, upper, atLower) == IF atLower THEN lower ELSE upper

\* lines 438 and 447: one degree outside the lower or the upper bound
ExitPt(lower, upper, atLower) ==
    IF atLower THEN PNorm(lower - Cent) ELSE PNorm(upper + Cent)

\* calculate_shortest_rotation(a, b); a and b in hundredths of their unit
CalculateShortestRotation(a, b) ==
    LET r0 == DegC(b) - DegC(a)
        r == IF r0 > HalfTurn THEN r0 - Turn
             ELSE IF r0 < -HalfTurn THEN r0 + Turn ELSE r0
    IN  Plan(r, IF r >= 0 THEN 1 ELSE -1)

\* shortest_rotation(a, b, apcr, settings); a and b in hundredths of their
\* unit, vwp = virtualwallpreset.
\* The result also carries the exit point and the two legs of lines 436-473.
ShortestRotation(a, b, w, vwp) ==
    LET an == PNorm(DegC(a))
        bn == PNorm(DegC(b))
        cw0 == (an - bn) % Turn
        cw_rot == -(IF cw0 > HalfTurn THEN cw0 - Turn ELSE cw0)
        ccw0 == (bn - an) % Turn
        ccw_rot == IF ccw0 > HalfTurn THEN ccw0 - Turn ELSE ccw0
        shortest_option == IF Abs(cw_rot) <= Abs(ccw_rot) THEN cw_rot ELSE ccw_rot
        shortest_dir == IF shortest_option = cw_rot THEN -1 ELSE 1
        w1 == PNorm(Deg(w.ws))
        w2 == PNorm(Deg(w.we))
        lower == IF w1 <= w2 THEN w1 ELSE w2
        upper == IF w1 <= w2 THEN w2 ELSE w1
        is_at_lower_half ==
            IF w1 <= w2 THEN (an - lower) < (upper - an)
            ELSE IF an >= lower THEN (an - lower) < (Turn - an + upper)
            ELSE (Turn - lower + an) < (upper - an)
        exit_pt == ExitPt(lower, upper, is_at_lower_half)
        exit_dir == IF is_at_lower_half THEN -1 ELSE 1
        ed0 == IF is_at_lower_half THEN (an - exit_pt) % Turn
               ELSE (exit_pt - an) % Turn
        ed1 == IF ed0 > HalfTurn THEN ed0 - Turn ELSE ed0
        exit_dist == IF is_at_lower_half THEN -ed1 ELSE ed1
        remaining_dist ==
            IF exit_dir = 1
            THEN (IF bn >= exit_pt THEN bn - exit_pt ELSE Turn - exit_pt + bn)
            ELSE (IF exit_pt >= bn THEN -(exit_pt - bn)
                  ELSE -(Turn - bn + exit_pt))
        cw_cross == RotationCrossesWall(DegC(a), DegC(b), -1, w)
        ccw_cross == RotationCrossesWall(DegC(a), DegC(b), 1, w)
    IN  IF ~vwp \/ ~w.has THEN CalculateShortestRotation(a, b)
        ELSE IF PresetsInWall(DegC(b), w) THEN NoPlan("target")
        ELSE IF PresetsInWall(DegC(a), w)
        THEN [ok |-> TRUE, why |-> "none", rot |-> exit_dist + remaining_dist,
              dir |-> exit_dir,
              exit |-> TRUE, exitPt |-> exit_pt, exitRot |-> exit_dist,
              restRot |-> remaining_dist]
        ELSE IF cw_cross /\ ccw_cross THEN NoPlan("blocked")
        ELSE IF cw_cross THEN Plan(ccw_rot, 1)
        ELSE IF ccw_cross THEN Plan(cw_rot, -1)
        ELSE Plan(shortest_option, shortest_dir)

\* Pan angles in degrees and wall bounds the planner is asked about.
PlanAngles == {0, 50, 90, 99, 101, 150, 199, 201, 210, 250, 330, 350}
PlanWalls == {NoWall, [has |-> TRUE, ws |-> 100, we |-> 200],
                      [has |-> TRUE, ws |-> 300, we |-> 60]}

\* shortest_rotation(a, b, apcr, settings) called with the device's wall
PlanCall(a, b) ==
    LET r == ShortestRotation(Cent * a, Cent * b, wall, virtualwallpreset)
    IN  /\ out' = [op |-> "plan", a |-> a, b |-> b, vwp |-> virtualwallpreset,
                   ok |-> r.ok, why |-> r.why, rot |-> r.rot, dir |-> r.dir,
                   exit |-> r.exit,
                   exitPt |-> r.exitPt, exitRot |-> r.exitRot,
                   restRot |-> r.restRot]
        /\ UNCHANGED <<motionVars, recallVars, cfgCore, pos, predicted_block,
                       predictor, virtual_wall_tracker, predObs>>

\* Fractional pan angles, in hundredths of a degree: 0, 10, 180, 190, 359.5
RawAngles == {0, 1000, 18000, 19000, 35950}

\* shortest_rotation(a, b, apcr, settings) for angles that need not be whole
\* degrees
PlanCallRaw(ac, bc) ==
    LET r == ShortestRotation(ac, bc, wall, virtualwallpreset)
        q == ShortestRotation(bc, ac, wall, virtualwallpreset)
    IN  /\ out' = [op |-> "planraw", a |-> ac, b |-> bc,
                   vwp |-> virtualwallpreset, ok |-> r.ok, rot |-> r.rot,
                   dir |-> r.dir, backOk |-> q.ok, backRot |-> q.rot,
                   backDir |-> q.dir]
        /\ UNCHANGED <<motionVars, recallVars, cfgCore, pos, predicted_block,
                       predictor, virtual_wall_tracker, predObs>>

\* console command "virtualwallpreset on" / "virtualwallpreset off"
SetVirtualWallPreset(b) ==
    /\ virtualwallpreset' = b
    /\ out' = NoOut
    /\ UNCHANGED <<motionVars, recallVars, segVars, other, feedAux, axis, callers, wall, virtualwall,
                   adaptive_speed, apcrs, pos, predicted_block, predictor,
                   virtual_wall_tracker, predObs>>

\* -------------------------------------------------------------- recall_preset
RecallThreads == {"joy", "console", "panel"}
MaxRecallSteps == 2

\* lines 876-882: under _recall_lock, reject when a recall is active
RecallCheck(t) ==
    /\ rpc[t] = "idle"
    /\ IF recall_active
       THEN UNCHANGED <<rpc, rsent, recall_active>>
       ELSE /\ recall_active' = FALSE
            /\ rpc' = [rpc EXCEPT ![t] = "reset"]
            /\ rsent' = [rsent EXCEPT ![t] = 0]
    /\ UNCHANGED <<motionVars, cfgVars, pos, predicted_block, predictor,
                   virtual_wall_tracker, predObs>>

\* lines 887-889
RecallReset(t) ==
    /\ rpc[t] = "reset"
    /\ virtual_wall_tracker' = "None"
    /\ rpc' = [rpc EXCEPT ![t] = "setflag"]
    /\ UNCHANGED <<motionVars, cfgVars, pos, predicted_block, predictor,
                   predObs, recall_active, rsent>>

\* lines 893-894
RecallSetFlag(t) ==
    /\ rpc[t] = "setflag"
    /\ recall_active' = TRUE
    /\ rpc' = [rpc EXCEPT ![t] = "lookup"]
    /\ UNCHANGED <<motionVars, cfgVars, pos, predicted_block, predictor,
                   virtual_wall_tracker, predObs, rsent>>

\* lines 898-905: get_preset; a missing preset releases the flag and returns
RecallLookup(t, found) ==
    /\ rpc[t] = "lookup"
    /\ IF found
       THEN /\ rpc' = [rpc EXCEPT ![t] = "plan"]
            /\ UNCHANGED recall_active
       ELSE /\ recall_active' = FALSE
            /\ rpc' = [rpc EXCEPT ![t] = "finally"]
    /\ UNCHANGED <<motionVars, cfgVars, pos, predicted_block, predictor,
                   virtual_wall_tracker, predObs, rsent>>

\* Stored pan targets of the presets a recall is asked for.
RecallTargets == {50, 150, 250}

\* inWall(tg['pan'], wstart, wend) of line 924, on the stored values
RecallTargetInWall(tPan, w) ==
    LET x == PNorm(Deg(tPan))
        a == PNorm(Deg(w.ws))
        b == PNorm(Deg(w.we))
        lo == IF a <= b THEN a ELSE b
        hi == IF a <= b THEN b ELSE a
    IN  w.has /\ lo <= x /\ x <= hi

\* why lines 914-1009 end the recall: "target" (target inside the wall, line
\* 931), "position" (no position, lines 963 and 972), "route" (the planner
\* returned None, line 1009) or "none"
RecallVerdict(tPan, p, w, vwp) ==
    IF vwp /\ RecallTargetInWall(tPan, w) THEN "target"
    ELSE IF ~p.has THEN "position"
    ELSE IF ~ShortestRotation(Cent * p.pan, Cent * tPan, w, vwp).ok THEN "route"
    ELSE "none"

\* lines 914-1009 with the early returns ignored: the segment always starts
RecallPlanNoReturn(t, tPan) ==
    /\ rpc[t] = "plan"
    /\ rpc' = [rpc EXCEPT ![t] = "exec"]
    /\ UNCHANGED recall_active
    /\ out' = [op |-> "recall", t |-> t, tPan |-> tPan,
               why |-> RecallVerdict(tPan, pos, wall, virtualwallpreset)]
    /\ UNCHANGED <<motionVars, cfgCore, pos, predicted_block, predictor,
                   virtual_wall_tracker, predObs, rsent>>

\* lines 914-1009: target inside the wall, no position or no route release the
\* flag and return; otherwise the segment executor starts
RecallPlan(t, tPan) ==
    /\ rpc[t] = "plan"
    /\ IF RecallVerdict(tPan, pos, wall, virtualwallpreset) = "none"
       THEN /\ rpc' = [rpc EXCEPT ![t] = "exec"]
            /\ UNCHANGED recall_active
       ELSE /\ recall_active' = FALSE
            /\ rpc' = [rpc EXCEPT ![t] = "finally"]
    /\ out' = [op |-> "recall", t |-> t, tPan |-> tPan,
               why |-> RecallVerdict(tPan, pos, wall, virtualwallpreset)]
    /\ UNCHANGED <<motionVars, cfgCore, pos, predicted_block, predictor,
                   virtual_wall_tracker, predObs, rsent>>

\* do_move_segment: one pass of the loop "while ... is_recall_active()" emits
\* the relative commands of the pass; the loop ends when the flag is cleared
\* or the target is reached
RecallExec(t, arrived) ==
    /\ rpc[t] = "exec"
    /\ IF recall_active /\ ~arrived /\ rsent[t] < MaxRecallSteps
       THEN /\ rsent' = [rsent EXCEPT ![t] = @ + 1]
            /\ UNCHANGED rpc
       ELSE /\ rpc' = [rpc EXCEPT ![t] = "finally"]
            /\ UNCHANGED rsent
    /\ UNCHANGED <<motionVars, cfgVars, pos, predicted_block, predictor,
                   virtual_wall_tracker, predObs, recall_active>>

\* recall_preset returning without its finally block
RecallFinallyKeepsFlag(t) ==
    /\ rpc[t] = "finally"
    /\ UNCHANGED recall_active
    /\ rpc' = [rpc EXCEPT ![t] = "idle"]
    /\ UNCHANGED <<motionVars, cfgVars, pos, predicted_block, predictor,
                   virtual_wall_tracker, predObs, rsent>>

\* lines 1040-1042
RecallFinally(t) ==
    /\ rpc[t] = "finally"
    /\ recall_active' = FALSE
    /\ rpc' = [rpc EXCEPT ![t] = "idle"]
    /\ UNCHANGED <<motionVars, cfgVars, pos, predicted_block, predictor,
                   virtual_wall_tracker, predObs, rsent>>

\* ------------------------------------------------------------ do_move_segment
\* Angles of the segment are whole degrees, step sizes hundredths of a degree
\* (Cent), zoom positions native units.
EaseMargin == 1
EasePeriod == 20
ZoomEaseMargin == 5
MaxStepSizePan == 140
MaxStepSizeTilt == 100
MaxStepSizeRoll == 50
MaxZoomSpeed == 225
MinZoomSpeed == 25
AbsZoomThreshold == 5
PanStepCap == 90        \* min(..., 90.0) of line 1063
NearTarget == 20        \* "abs(dp) < 20.0" of line 1114
FactorFloor == 6        \* max(0.3, abs(dp) / 20.0), in twentieths
OvershootSpan == 5      \* EASE_MARGIN * 5
ShortRouteSpan == 3     \* EASE_MARGIN * 3
TurnDeg == 360
SegItersCap == 3        \* passes counted; later passes are not told apart

Min2(a, b) == IF a <= b THEN a ELSE b
Max2(a, b) == IF a >= b THEN a ELSE b
Clamp(val, mn, mx) == Max2(mn, Min2(val, mx))

\* lines 1063-1068
StPanMaxUnscaled(speed) == Min2((MaxStepSizePan * speed) \div 100, PanStepCap)

StPanMax(speed) == Min2(MaxStepSizePan * speed, PanStepCap * Cent)
StTilt(speed) == MaxStepSizeTilt * speed
StRoll(speed) == MaxStepSizeRoll * speed
StZoom(speed) == MinZoomSpeed + ((MaxZoomSpeed - MinZoomSpeed) * speed) \div 100

\* lines 1090-1249 of one pass: the deltas, the "done" test, the step sizes,
\* the clamped moves (mv_p, mv_t, mv_r in hundredths) and the two zoom tests.
\* Lines 1178-1218 only choose the speed value carried by the zoom packet.
SegDeltas(s, lp, vwp) ==
    LET raw == (s.tPan - lp) % TurnDeg
        dp0 == IF 2 * raw > TurnDeg THEN raw - TurnDeg ELSE raw
        sgn == IF dp0 >= 0 THEN 1 ELSE -1
        over == s.last_dp_sign # 0 /\ sgn # s.last_dp_sign
                  /\ Abs(dp0) < OvershootSpan
        count == IF over THEN Min2(s.overshoot_count + 1, 2) ELSE s.overshoot_count
        pst0 == IF Abs(dp0) < NearTarget
                THEN (StPanMax(s.speed) * Max2(FactorFloor, Abs(dp0))) \div NearTarget
                ELSE StPanMax(s.speed)
        natural == Abs(dp0) <= ShortRouteSpan \/ over \/ count >= 2 \/ ~vwp
        dp == IF ~natural /\ ((s.direction = 1 /\ dp0 < 0) \/ (s.direction = -1 /\ dp0 > 0))
              THEN -dp0 ELSE dp0
        dt == s.tTilt - s.cTilt
        dr == s.tRoll - s.cRoll
        dz == s.tZoom - s.cZoom
        mxptr == Max2(Abs(dp), Max2(Abs(dt), Abs(dr)))
        ease == Cent * mxptr * 100
                  < EasePeriod * Max2(pst0, Max2(StTilt(s.speed), StRoll(s.speed)))
        p_st == IF ease THEN pst0 \div 2 ELSE pst0
        t_st == IF ease THEN StTilt(s.speed) \div 2 ELSE StTilt(s.speed)
        r_st == IF ease THEN StRoll(s.speed) \div 2 ELSE StRoll(s.speed)
        mv_p == Clamp(Cent * dp, -p_st, p_st)
        mv_t == Clamp(Cent * dt, -t_st, t_st)
        mv_r == Clamp(Cent * dr, -r_st, r_st)
        mv_z == Clamp(dz, -StZoom(s.speed), StZoom(s.speed))
    IN  [sgn |-> sgn, count |-> count, dz |-> dz,
         done |-> /\ Abs(dp) <= EaseMargin /\ Abs(dt) <= EaseMargin
                  /\ Abs(dr) <= EaseMargin /\ Abs(dz) <= ZoomEaseMargin,
         mv_p |-> mv_p, mv_t |-> mv_t, mv_r |-> mv_r, mv_z |-> mv_z,
         stable |-> Abs(dz) <= ZoomEaseMargin /\ mv_p = 0 /\ mv_t = 0 /\ mv_r = 0,
         overshoot |-> (dz > 0 /\ mv_z < 0) \/ (dz < 0 /\ mv_z > 0)]

\* the packet log: the last packet of each axis, the axes that ever got a
\* relative command, the last packet of all
Log(sn, ax, kind) ==
    [sn EXCEPT ![ax] = kind, !.last = <<ax, kind>>,
               !.rel = IF kind = "rel" THEN @ \cup {ax} ELSE @]
LogIf(sn, cond, ax, kind) == IF cond THEN Log(sn, ax, kind) ELSE sn
\* zoom idle packet followed by the absolute zoom packet
LogZoomFix(sn) == Log(Log(sn, "zoom", "idle"), "zoom", "abs")
\* idle packets for pan, tilt, roll, zoom in this order
LogIdleAll(sn) ==
    Log(Log(Log(Log(sn, "pan", "idle"), "tilt", "idle"), "roll", "idle"), "zoom", "idle")

\* a device that follows moves by what it is told
Follow(d, mp, mt, mr, mz) ==
    IF d.mode = "follows"
    THEN [d EXCEPT !.pan = @ + TruncDiv(mp, Cent), !.tilt = @ + TruncDiv(mt, Cent),
                   !.roll = @ + TruncDiv(mr, Cent), !.zoom = @ + mz]
    ELSE d
FollowZoomTo(d, z) == IF d.mode = "follows" THEN [d EXCEPT !.zoom = z] ELSE d
DevSample(d) == [has |-> TRUE, pan |-> d.pan, tilt |-> d.tilt, roll |-> d.roll,
                 zoom |-> d.zoom]
Synced == pos = DevSample(dev) /\ localPan = dev.pan

segRest == <<motionVars, other, axis, callers, wall, virtualwall, adaptive_speed,
             virtualwallpreset, apcrs, predicted_block, predictor,
             virtual_wall_tracker, predObs, out>>

\* line 1088: the loop test
SegCheck ==
    /\ seg.pc = "check"
    /\ seg' = IF recall_active
              THEN [seg EXCEPT !.pc = "body", !.stopped = FALSE, !.missed = seg.stopped]
              ELSE [seg EXCEPT !.pc = "final", !.exit = "cancel"]
    /\ UNCHANGED <<segRest, recallVars, pos, dev, sent, feedAux>>

\* lines 1090-1313: one pass up to the position fetch
SegBody ==
    /\ seg.pc = "body"
    /\ LET d == SegDeltas(seg, localPan, virtualwallpreset)
           passed == seg.zsign # 0 /\ Sign(d.dz) = -seg.zsign
           any == d.mv_p # 0 \/ d.mv_t # 0 \/ d.mv_r # 0 \/ d.mv_z # 0
           s1 == [seg EXCEPT !.last_dp_sign = d.sgn, !.overshoot_count = d.count,
                             !.iters = Min2(@ + 1, SegItersCap),
                             !.zsign = IF d.dz = 0 THEN @ ELSE Sign(d.dz),
                             !.zover = @ \/ passed]
           sn == LogIf(LogIf(LogIf(sent, d.mv_p # 0, "pan", "rel"),
                             d.mv_t # 0, "tilt", "rel"), d.mv_r # 0, "roll", "rel")
           sz == Log(sn, "zoom", IF d.mv_z # 0 THEN "rel" ELSE "idle")
           moved == IF any THEN "fresh" ELSE seg.moved
       IN  IF d.done
           THEN \* lines 1148-1164
                /\ seg' = [s1 EXCEPT !.pc = "final", !.exit = "done",
                                     !.corrected = d.dz # 0]
                /\ sent' = IF d.dz # 0 THEN LogZoomFix(sent) ELSE Log(sent, "zoom", "idle")
                /\ dev' = IF d.dz # 0 THEN FollowZoomTo(dev, seg.tZoom) ELSE dev
           ELSE IF d.stable /\ seg.stable = "late"
           THEN \* lines 1230-1244
                /\ seg' = [s1 EXCEPT !.pc = "final", !.exit = "stable",
                                     !.corrected = Abs(d.dz) <= AbsZoomThreshold]
                /\ sent' = IF Abs(d.dz) <= AbsZoomThreshold THEN LogZoomFix(sent) ELSE sent
                /\ dev' = IF Abs(d.dz) <= AbsZoomThreshold
                          THEN FollowZoomTo(dev, seg.tZoom) ELSE dev
           ELSE IF d.overshoot
           THEN \* lines 1249-1262
                /\ seg' = [s1 EXCEPT !.pc = "final", !.exit = "overshoot",
                                     !.corrected = TRUE]
                /\ sent' = LogZoomFix(sent)
                /\ dev' = FollowZoomTo(dev, seg.tZoom)
           ELSE \* lines 1265-1313
                /\ dev' = Follow(dev, d.mv_p, d.mv_t, d.mv_r, d.mv_z)
                /\ IF moved = "late"
                   THEN /\ sent' = LogIdleAll(sz)
                        /\ seg' = [s1 EXCEPT !.pc = "final", !.exit = "stall",
                                             !.stale_used = @ \/ (fdb_old /\ any)]
                   ELSE /\ sent' = sz
                        /\ seg' = [s1 EXCEPT !.pc = "fetch", !.moved = moved,
                                     !.stable = IF ~d.stable THEN "none"
                                                ELSE IF @ = "none" THEN "set" ELSE @,
                                     !.stale_used = @ \/ (fdb_old /\ any)]
    /\ UNCHANGED <<segRest, recallVars, pos, feedAux>>

\* lines 1316-1331: get_current_position; tilt, roll and zoom are taken from
\* the cached sample.  A device that follows has reported where it stands
\* before the sample is read.
SegFetch ==
    /\ seg.pc = "fetch"
    /\ dev.mode = "follows" => Synced
    /\ seg' = IF pos.has
              THEN [seg EXCEPT !.pc = "check", !.cTilt = pos.tilt, !.cRoll = pos.roll,
                               !.cZoom = pos.zoom]
              ELSE [seg EXCEPT !.pc = "final", !.exit = "nopos"]
    /\ UNCHANGED <<segRest, recallVars, pos, dev, sent, feedAux>>

\* lines 1334-1341 without the idle packets
SegFinalNoIdle ==
    /\ seg.pc = "final"
    /\ seg' = [seg EXCEPT !.pc = "done"]
    /\ rpc' = [rpc EXCEPT !["joy"] = "finally"]
    /\ UNCHANGED <<segRest, recall_active, rsent, pos, dev, sent, feedAux>>

\* lines 1334-1343: three rounds of idle packets, then the return to
\* recall_preset
SegFinal ==
    /\ seg.pc = "final"
    /\ seg' = [seg EXCEPT !.pc = "done"]
    /\ sent' = LogIdleAll(LogIdleAll(LogIdleAll(sent)))
    /\ rpc' = [rpc EXCEPT !["joy"] = "finally"]
    /\ UNCHANGED <<segRest, recall_active, rsent, pos, dev, feedAux>>

\* stop_recall
StopRecall ==
    /\ recall_active
    /\ recall_active' = FALSE
    /\ seg' = IF seg.pc \in {"check", "body", "fetch"}
              THEN [seg EXCEPT !.stopped = TRUE] ELSE seg
    /\ UNCHANGED <<segRest, rpc, rsent, pos, dev, sent, feedAux>>

\* time passes: the stall clock, the zoom-stable clock or the age of the
\* cached sample goes past its threshold
Elapse(k) ==
    /\ seg.pc \in {"check", "body", "fetch"}
    /\ \/ /\ k = "stall" /\ seg.moved = "fresh"
          /\ seg' = [seg EXCEPT !.moved = "late"]
          /\ UNCHANGED fdb_old
       \/ /\ k = "stable" /\ seg.stable = "set"
          /\ seg' = [seg EXCEPT !.stable = "late"]
          /\ UNCHANGED fdb_old
       \/ /\ k = "fdb" /\ pos.has /\ ~fdb_old
          /\ fdb_old' = TRUE
          /\ UNCHANGED seg
    /\ UNCHANGED <<segRest, recallVars, pos, dev, sent, localPan>>

\* the device reports where it stands
DevFeed ==
    /\ dev.mode # "none"
    /\ Feed(DevSample(dev))

\* a device that moves on its own account: the zoom runs on
DriftZooms == {2090, 2097, 2110}
DevDrift(z) ==
    /\ dev.mode = "free" /\ dev.zoom # z
    /\ dev' = [dev EXCEPT !.zoom = z]
    /\ UNCHANGED <<segRest, recallVars, pos, seg, sent, feedAux>>

\* discovery gives the device another camid: nothing is cached under it
CamidChange ==
    /\ pos.has /\ dev.mode # "none"
    /\ pos' = NoPos
    /\ fdb_old' = FALSE
    /\ UNCHANGED <<segRest, recallVars, seg, dev, sent, localPan>>

\* ------------------------------------------------------------ specifications
MotionStep ==
    \/ \E t \in Callers : \E dir \in DirsOf(axis), pct \in PctsOf(t), ct \in KindsOf(t) :
          StartCall(t, dir, pct, ct)
    \/ \E t \in Callers : SuWrite(t)
    \/ \E t \in Callers : SuSend(t)
    \/ \E t \in Callers : SuTimer(t)
    \/ \E t \in Callers : SuIdle(t)
    \/ \E t \in Callers : StopCall(t)
    \/ \E t \in Callers : SmWrite(t)
    \/ \E t \in Callers : SmTimer(t)
    \/ \E t \in Callers : SmIdle(t)
    \/ \E id \in TimerIds : RepeatFire(id)
    \/ \E id \in TimerIds : RepeatSend(id)
    \/ \E id \in TimerIds : RepeatArm(id)
    \/ \E id \in TimerIds : IdleFire(id)
    \/ \E id \in TimerIds : IdleSend(id)

Next == MotionStep

NextWall ==
    \/ MotionStep
    \/ \E s \in FeedSamples : Feed(s)
    \/ PredictorTick

NextRecall ==
    \/ \E t \in RecallThreads : RecallCheck(t)
    \/ \E t \in RecallThreads : RecallReset(t)
    \/ \E t \in RecallThreads : RecallSetFlag(t)
    \/ \E t \in RecallThreads : \E found \in BOOLEAN : RecallLookup(t, found)
    \/ \E t \in RecallThreads : \E tPan \in RecallTargets : RecallPlan(t, tPan)
    \/ \E t \in RecallThreads : \E arrived \in BOOLEAN : RecallExec(t, arrived)
    \/ \E t \in RecallThreads : RecallFinally(t)

\* console command "virtualwall on" / "virtualwall off": the switch is written
\* and both tracker slots are reset to None
SetVirtualWall(b) ==
    /\ virtualwall' = b
    /\ virtual_wall_tracker' = "None"
    /\ out' = NoOut
    /\ UNCHANGED <<motionVars, recallVars, segVars, other, feedAux, axis, callers, wall, adaptive_speed,
                   virtualwallpreset, apcrs, pos, predicted_block,
                   predictor, predObs>>

NextGuard ==
    \/ \E dir \in DirsOf(axis), pct \in Pcts, m \in Margins : GuardCall(dir, pct, m)
    \/ \E m \in Margins : \E x \in ProbePoints(wall, m) : ContainCall(x, m)
    \/ \E dir \in DirsOf(axis), pct \in Pcts : SendCall(dir, pct)
    \/ \E s \in GuardSamples : Feed(s)
    \/ \E b \in BOOLEAN : SetVirtualWall(b)

NextMonitor ==
    \/ \E ans \in [Devs -> MonSamples \cup {NoSample}] : MonitorTick(ans)
    \/ \E d \in Devs : ToggleActiveTrack(d)
    \/ \E d \in Devs : \E s \in MonSamples : FeedDev(d, s)

NextPlan ==
    \/ \E a \in PlanAngles, b \in PlanAngles : PlanCall(a, b)
    \/ \E ac \in RawAngles, bc \in RawAngles : PlanCallRaw(ac, bc)
    \/ \E b \in BOOLEAN : SetVirtualWallPreset(b)

\* Both caller threads on one axis, wall switched off.
Init ==
    /\ InitMotion
    /\ InitRecall
    /\ InitAux
    /\ axis \in Axes
    /\ callers = Callers
    /\ pos = [has |-> TRUE, pan |-> 50, tilt |-> 50, roll |-> 0, zoom |-> 1]
    /\ wall = NoWall
    /\ virtualwall = FALSE
    /\ adaptive_speed \in BOOLEAN
    /\ predictor = "off"

\* One caller on a wall-checked axis, with the position feed and the predictor
\* thread.
InitWall ==
    /\ InitMotion
    /\ InitRecall
    /\ InitAux
    /\ axis \in {"pan", "tilt"}
    /\ callers = {"joy"}
    /\ pos = NoPos
    /\ wall \in WallCfgs
    /\ virtualwall = TRUE
    /\ adaptive_speed = FALSE
    /\ predictor = "running"

\* The recall entry point called from several threads.
InitRecallOnly ==
    /\ InitMotion
    /\ InitRecall
    /\ axis = "pan"
    /\ callers = {}
    /\ pos \in {NoPos, [has |-> TRUE, pan |-> 50, tilt |-> 50, roll |-> 0, zoom |-> 1]}
    /\ wall \in {NoWall, [has |-> TRUE, ws |-> 100, we |-> 200]}
    /\ virtualwall = FALSE
    /\ virtualwallpreset \in BOOLEAN
    /\ apcrs = NoApcrs
    /\ out = NoOut
    /\ adaptive_speed = FALSE
    /\ predictor = "off"

\* The pan planner called for every pair of angles.
InitPlan ==
    /\ InitMotion
    /\ InitRecall
    /\ axis = "pan"
    /\ callers = {}
    /\ pos = NoPos
    /\ wall \in PlanWalls
    /\ virtualwall = FALSE
    /\ virtualwallpreset \in BOOLEAN
    /\ adaptive_speed = FALSE
    /\ predictor = "off"
    /\ apcrs = NoApcrs
    /\ out = NoOut

\* The active-track monitor over two devices.
InitMonitor ==
    /\ InitMotion
    /\ InitRecall
    /\ axis = "pan"
    /\ callers = {}
    /\ pos = NoPos
    /\ wall = NoWall
    /\ virtualwall \in BOOLEAN
    /\ virtualwallpreset \in BOOLEAN
    /\ adaptive_speed = FALSE
    /\ predictor = "off"
    /\ apcrs \in [Devs -> [active_track : BOOLEAN, wall : MonWalls,
                           sample : {NoSample}]]
    /\ out = NoOut

\* The wall guard, its containment test and send_movement_packet called at
\* every cached position and wall configuration.
InitGuard ==
    /\ InitMotion
    /\ InitRecall
    /\ InitAux
    /\ axis \in {"pan", "tilt"}
    /\ callers = {}
    /\ pos \in GuardSamples
    /\ wall \in GuardWalls
    /\ virtualwall \in BOOLEAN
    /\ adaptive_speed = FALSE
    /\ predictor = "off"

Spec == Init /\ [][Next]_vars
SpecGuard == InitGuard /\ [][NextGuard]_vars
SpecMonitor == InitMonitor /\ [][NextMonitor]_vars
SpecPlan == InitPlan /\ [][NextPlan]_vars
SpecWall == InitWall /\ [][NextWall]_vars
SpecRecall == InitRecallOnly /\ [][NextRecall]_vars

\* -------------------------------------------------- adaptive-speed scenario
\* Zoom values the cached sample may hold: 0 %, about 25 %, 50 %, about 73 %
\* and 100 % of the native range; percentages the joystick loop may request.
ZoomSamples == {[has |-> TRUE, pan |-> 50, tilt |-> 50, roll |-> 0, zoom |-> z] :
                  z \in {1, 1025, 2048, 3000, 4095}}
AdaptPcts == {1, 50, 100}

\* start_or_update_movement run to its end from movement state s: the
\* percentage the slot holds afterwards and the packet handed to the sender
StartEffect(s, ax, ad, p, w, vw, dir, pct, ct) ==
    LET pct2 == AdaptedPercentage(ax, ad, p, pct)
        go == StartChanged(s, dir, pct, ct, pct2) \/ ~s.active
    IN  [percentage |-> IF go THEN pct2 ELSE s.percentage,
         packet |-> IF go THEN SendMovementPacket(ax, dir, pct2, ct, p, w, vw)
                    ELSE [kind |-> "none", sv |-> 0, cur |-> NoCur]]

\* One caller on any axis; the position cache is empty or holds one sample.
InitAdaptive ==
    /\ InitMotion
    /\ InitRecall
    /\ InitAux
    /\ axis \in Axes
    /\ callers = {"joy"}
    /\ pos \in ZoomSamples \cup {NoPos}
    /\ wall = NoWall
    /\ virtualwall = FALSE
    /\ adaptive_speed \in BOOLEAN
    /\ predictor = "off"

NextAdaptive ==
    \/ MotionStep
    \/ \E dir \in DirsOf(axis), pct \in AdaptPcts : StartCall("joy", dir, pct, "axis")

SpecAdaptive == InitAdaptive /\ [][NextAdaptive]_vars

\* ---------------------------------------------------------- segment scenario
\* recall_preset has planned the pan route from the cached position and called
\* do_move_segment: the device stands at pan 50, tilt 0, roll 0, zoom 2000.
DevModes == {"follows", "frozen", "free"}
DevStarts == {[mode |-> m, pan |-> 50, tilt |-> 0, roll |-> 0, zoom |-> 2000] :
                m \in DevModes}
SegTargets == {[pan |-> 50, tilt |-> 0, roll |-> 0, zoom |-> 2000],
               [pan |-> 60, tilt |-> 0, roll |-> 0, zoom |-> 2000],
               [pan |-> 50, tilt |-> 0, roll |-> 0, zoom |-> 2100],
               [pan |-> 250, tilt |-> 30, roll |-> 0, zoom |-> 2100]}
SegSpeeds == {50}

\* lines 996-1031 and 1073-1085: the arguments and the locals at loop entry
SegStart(d, tg, speed, w, vwp) ==
    LET plan == ShortestRotation(Cent * d.pan, Cent * tg.pan, w, vwp)
    IN  [pc |-> "check",
         tPan |-> d.pan + TruncDiv(plan.rot, Cent), tTilt |-> tg.tilt,
         tRoll |-> tg.roll, tZoom |-> tg.zoom,
         cTilt |-> d.tilt, cRoll |-> d.roll, cZoom |-> d.zoom,
         speed |-> speed, direction |-> plan.dir,
         last_dp_sign |-> 0, overshoot_count |-> 0,
         stable |-> "none", moved |-> "fresh", exit |-> "none", iters |-> 0,
         stopped |-> FALSE, missed |-> FALSE, zsign |-> 0, zover |-> FALSE,
         corrected |-> FALSE, stale_used |-> FALSE]

InitSegment ==
    /\ InitMotion
    /\ axis = "pan"
    /\ callers = {}
    /\ wall = NoWall
    /\ virtualwall = FALSE
    /\ virtualwallpreset \in BOOLEAN
    /\ adaptive_speed = FALSE
    /\ predictor = "off"
    /\ apcrs = NoApcrs
    /\ out = NoOut
    /\ dev \in DevStarts
    /\ pos = DevSample(dev)
    /\ localPan = dev.pan
    /\ fdb_old = FALSE
    /\ seg \in {SegStart(dev, tg, sp, wall, virtualwallpreset) :
                   tg \in SegTargets, sp \in SegSpeeds}
    /\ sent = NoSent
    /\ recall_active = TRUE
    /\ rpc = [t \in {"joy", "console", "panel"} |-> IF t = "joy" THEN "exec" ELSE "idle"]
    /\ rsent = [t \in {"joy", "console", "panel"} |-> 0]

\* the same with a device that does not react
InitStall ==
    /\ InitSegment
    /\ dev.mode = "frozen"

SegStep == SegCheck \/ SegBody \/ SegFetch \/ SegFinal

NextSegment ==
    \/ SegCheck
    \/ SegBody
    \/ SegFetch
    \/ SegFinal
    \/ StopRecall
    \/ \E k \in {"stall", "stable", "fdb"} : Elapse(k)
    \/ DevFeed
    \/ \E z \in DriftZooms : DevDrift(z)
    \/ CamidChange
    \/ RecallFinally("joy")

\* a running segment, stop_recall and recall_preset called from the panel
\* thread for a slot that holds no preset
NextCancel ==
    \/ SegCheck
    \/ SegBody
    \/ SegFetch
    \/ SegFinal
    \/ StopRecall
    \/ DevFeed
    \/ RecallCheck("panel")
    \/ RecallReset("panel")
    \/ RecallSetFlag("panel")
    \/ RecallLookup("panel", FALSE)
    \/ \E t \in {"joy", "panel"} : RecallFinally(t)

NextStall ==
    \/ SegCheck
    \/ SegBody
    \/ SegFetch
    \/ SegFinal
    \/ \E k \in {"stall", "stable", "fdb"} : Elapse(k)
    \/ DevFeed

SpecSegment == InitSegment /\ [][NextSegment]_vars
SpecCancel == InitSegment /\ [][NextCancel]_vars
\* the executor thread keeps running and time keeps passing
SpecStall ==
    /\ InitStall /\ [][NextStall]_vars
    /\ WF_vars(SegStep) /\ WF_vars(Elapse("stall"))

\* ------------------------------------------------------------------ claims
InRecallBody(t) == rpc[t] # "idle"

\* C1: at any instant at most one recall_preset invocation is past the
\* active-recall check; a second request is turned away at the check.
C1_OneRecallPastCheck ==
    Cardinality({t \in RecallThreads : InRecallBody(t)}) <= 1

\* scaled containment as the wall is specified: the interval [ws, we], or its
\* complement side when ws > we
WallHas(x, w) ==
    IF w.ws > w.we
    THEN x >= w.ws * SpeedMax \/ x <= w.we * SpeedMax
    ELSE w.ws * SpeedMax <= x /\ x <= w.we * SpeedMax

EnteringSend ==
    /\ lastSend.by \in {"start", "repeat"}
    /\ axis \in {"pan", "tilt"}
    /\ virtualwall /\ wall.has
    /\ lastSend.cur # NoCur
    /\ ~WallHas(lastSend.cur * SpeedMax, wall)
    /\ WallHas(lastSend.cur * SpeedMax + lastSend.sv * DegPerFull, wall)

\* C2: with the wall enabled, both bounds set and a cached position, a pan or
\* tilt command sent by start_or_update_movement or repeat_command whose
\* current position is outside the wall and whose projected position is inside
\* goes out as the idle packet, never as a movement packet.
C2_EntryBlocked == EnteringSend => lastSend.kind = "idle"

C2_Witness == EnteringSend /\ lastSend.kind = "idle"

\* C3: once stop_movement has returned, no movement packet is sent for the
\* axis until the next start_or_update_movement call, whatever a repeat
\* callback that already fired is doing.
C3_NoMoveAfterStop == ~(lastSend.kind = "move" /\ lastSend.quiet)

\* C4: an axis has at most one pending repeat timer and at most one pending
\* idle-grace timer.
C4_OneTimerEach ==
    /\ Cardinality(PendingRepeat(timers)) <= 1
    /\ Cardinality(PendingIdle(timers)) <= 1

\* C5: a stop_movement call that directly follows another one on the same axis
\* finds the axis inactive: it sends nothing, does not enter the body that
\* writes the state and arms the grace timer, and leaves at most the first
\* call's grace timer pending.
C5_SecondStopNoOp ==
    /\ (ret.op = "stop" /\ ret.second) =>
          (~ret.eff /\ ret.sent = 0 /\ ~ret.act /\ ret.pendI <= 1)
    /\ \A t \in Callers : InStop(pc[t]) => ~arg[t].second

C5_Witness == ret.op = "stop" /\ ret.second /\ ret.firstEff /\ ~ret.eff

\* C6: a start_or_update_movement call that found the axis inactive or the
\* values changed returns with the axis active under the new values, exactly
\* one packet sent by the call, exactly one repeat timer pending and no
\* idle-grace timer pending.
C6_StartPostcondition ==
    (ret.op = "start" /\ ret.eff) =>
        (ret.act /\ ret.vals /\ ret.sent = 1 /\ ret.pendR = 1 /\ ret.pendI = 0)

\* C7: a stop_movement call on an active axis returns with one idle packet
\* sent, the axis inactive, no repeat timer pending and one idle-grace timer
\* pending.
C7_StopPostcondition ==
    (ret.op = "stop" /\ ret.eff) =>
        (ret.sent = 1 /\ ~ret.act /\ ret.pendR = 0 /\ ret.pendI = 1)

\* C8: a repeat_command run on an active axis with predicted_block set adds
\* its delta, sends nothing and arms no timer; with the flag clear it sends
\* exactly one packet and arms exactly one new timer.
C8_RepeatOutcome ==
    lastRep.ran =>
        IF lastRep.flag
        THEN lastRep.cum /\ lastRep.sent = 0 /\ lastRep.armed = 0
        ELSE lastRep.sent = 1 /\ lastRep.armed = 1

\* C9: when the predictor finds the projected pan position (current plus
\* cumulative delta) inside the wall while the current position is outside,
\* predicted_block is set.
C9_PredictorSetsFlag ==
    (predObs.ticked /\ predObs.projIn /\ ~predObs.curIn) => predicted_block

\* the entry direction the wall rule uses: the recorded one, else the one
\* inferred from the command's own delta
EntryDirection ==
    IF virtual_wall_tracker \in {"pos", "neg"}
    THEN TrackerDir(virtual_wall_tracker) ELSE Sign(lastSend.sv)

InsideSend ==
    /\ lastSend.by \in {"start", "repeat"}
    /\ axis \in {"pan", "tilt"}
    /\ virtualwall /\ wall.has
    /\ lastSend.cur # NoCur
    /\ WallHas(lastSend.cur * SpeedMax, wall)

\* C10: while the current position is inside the wall a command goes out as a
\* movement packet if and only if its direction is the opposite of the entry
\* direction (recorded, or inferred from the command's delta); every other
\* command is blocked.
C10_ExitOnlyAgainstEntry ==
    InsideSend => (lastSend.kind = "move" <=> Sign(lastSend.sv) = -EntryDirection)

\* the wall as it is specified, for a position scaled by 2024: absolute bounds
\* are compared as they are, normalized bounds on the circle
InsideWall(x, w) ==
    IF UseAbsolute(w) THEN WallHas(x, w)
    ELSE WallHas(x % (360 * SpeedMax), w)

\* x is the point one degree before the start bound or one degree past the end
\* bound (on the circle for normalized bounds)
OneBeyond(x, w) ==
    IF UseAbsolute(w)
    THEN x \in {(w.ws - 1) * SpeedMax, (w.we + 1) * SpeedMax}
    ELSE x % (360 * SpeedMax) \in {((w.ws - 1) % 360) * SpeedMax,
                                   ((w.we + 1) % 360) * SpeedMax}

\* C11: for every command blocked while the axis is inside the wall, the
\* returned correction_delta lies in [-180, 180), and current position +
\* correction_delta is the point 1 degree beyond a wall boundary and is itself
\* outside the wall, in normalized and in absolute mode alike.
C11_CorrectionLeavesWall ==
    (out.op = "guard" /\ out.block /\ out.curIn) =>
        /\ -180 * SpeedMax <= out.corr /\ out.corr < 180 * SpeedMax
        /\ OneBeyond(out.cur * SpeedMax + out.corr, wall)
        /\ ~InsideWall(out.cur * SpeedMax + out.corr, wall)

\* C12: for every wall configuration (absolute or normalized bounds, any
\* margin >= 0) the containment test reports wall_start - margin and
\* wall_end + margin as inside and the positions one unit beyond them as outside.
C12_BoundaryInclusive ==
    out.op = "contains" =>
        /\ out.x \in {wall.ws - out.m, wall.we + out.m} => out.in
        /\ out.x \in {wall.ws - out.m - 1, wall.we + out.m + 1} => ~out.in

\* C13: with both bounds in [0,360) and wall_start > wall_end a position p is
\* reported inside exactly when p mod 360 >= wall_start or p mod 360 <= wall_end;
\* with a bound outside [0,360) the plain absolute-range comparison is used.
C13_WrapContainment ==
    out.op = "contains" =>
        IF UseAbsolute(wall)
        THEN out.in <=>
               IF wall.ws > wall.we
               THEN out.x >= wall.ws - out.m \/ out.x <= wall.we + out.m
               ELSE wall.ws - out.m <= out.x /\ out.x <= wall.we + out.m
        ELSE wall.ws > wall.we =>
               (out.in <=> (out.x % 360 >= wall.ws \/ out.x % 360 <= wall.we))

\* C14: with the virtual wall disabled, or a bound missing for the axis, the
\* guard allows every command and clears the axis' tracker, and
\* send_movement_packet hands over the movement packet whatever the position.
C14_DisabledWallAllows ==
    /\ (out.op = "guard" /\ (~out.vw \/ ~wall.has)) =>
          /\ ~out.block /\ ~out.trigger /\ out.corr = 0 /\ ~out.raised
          /\ out.tracker = "empty"
    /\ (out.op = "send" /\ (~out.vw \/ ~wall.has)) => out.kind = "move"

\* the guard was called, switched off, at a position inside a configured wall
C14_Witness ==
    /\ wall.has
    /\ out.op = "guard" /\ ~out.vw /\ out.curIn /\ out.tr = "None"
    /\ out.tracker = "empty" /\ virtual_wall_tracker = "empty"

\* device d met the three conditions when the tick looked at it: active_track
\* on, a configured pan wall, and its latest pan sample inside that wall
TickCase(d) ==
    /\ out.before[d].active_track
    /\ out.before[d].wall.has
    /\ out.used[d].has
    /\ LET w == out.before[d].wall
           p == Norm10(out.used[d].pan)
       IN  IF Norm10(w.ws) <= Norm10(w.we)
           THEN Norm10(w.ws) <= p /\ p <= Norm10(w.we)
           ELSE p >= Norm10(w.ws) \/ p <= Norm10(w.we)

\* C15: with a wall feature enabled, one tick of the active-track monitor sets
\* active_track to false and emits exactly one track-disable command for a
\* device if and only if the device has active_track on, a configured pan wall
\* and its latest pan sample inside that wall; every other device is left
\* unchanged and receives no command.
C15_MonitorDisablesInWall ==
    (out.op = "tick" /\ out.enabled) =>
        \A d \in Devs :
            IF TickCase(d)
            THEN /\ ~apcrs[d].active_track
                 /\ out.cmds[d] = 1
                 /\ apcrs[d] = [out.before[d] EXCEPT !.active_track = FALSE]
            ELSE /\ apcrs[d] = out.before[d]
                 /\ out.cmds[d] = 0

\* a tick disabled one device inside a wall that spans the 0/360 wrap and left
\* a tracking device outside its wall alone
C15_Witness ==
    /\ out.op = "tick" /\ out.enabled
    /\ \E d \in Devs :
          /\ TickCase(d) /\ out.before[d].wall.ws > out.before[d].wall.we
          /\ out.cmds[d] = 1 /\ ~apcrs[d].active_track
    /\ \E d \in Devs :
          /\ ~TickCase(d) /\ out.before[d].active_track /\ out.used[d].has
          /\ out.before[d].wall.has /\ apcrs[d].active_track

\* the pan wall as it is specified, for an angle in hundredths: the arc from
\* start to end, across 0/360 when start > end
PanWallHas(h, w) ==
    LET x == h % Turn
    IN  IF w.ws > w.we
        THEN x >= Cent * w.ws \/ x <= Cent * w.we
        ELSE Cent * w.ws <= x /\ x <= Cent * w.we

\* the rotation rot applied from angle h (hundredths) passes a wall angle
SweepTouchesWall(h, rot, w) ==
    \E k \in 0..(Abs(rot) \div Cent) : PanWallHas(h + Sign(rot) * k * Cent, w)

\* the route from a to b (degrees) in direction dir (1 = increasing angle)
RouteRot(a, b, dir) ==
    IF dir = 1 THEN ((b - a) % 360) * Cent ELSE -(((a - b) % 360) * Cent)

\* the planner was asked, wall-aware, about a device with a pan wall
PlannedWithWall == out.op = "plan" /\ out.vwp /\ wall.has

\* C16: with current and target pan both outside the wall and exactly one of
\* the two routes passing through the wall, the planner returns the direction of
\* the non-crossing route, and the returned rotation applied from the current
\* pan in that direction reaches the target without passing any wall angle.
C16_TakesFreeRoute ==
    (/\ PlannedWithWall
     /\ ~PanWallHas(Cent * out.a, wall) /\ ~PanWallHas(Cent * out.b, wall)
     /\ out.a # out.b) =>
        \A d \in {1, -1} :
            (/\ ~SweepTouchesWall(Cent * out.a, RouteRot(out.a, out.b, d), wall)
             /\ SweepTouchesWall(Cent * out.a, RouteRot(out.a, out.b, -d), wall)) =>
                /\ out.ok
                /\ out.dir = d
                /\ out.rot = RouteRot(out.a, out.b, d)

\* C17: with wall-aware planning and both pan bounds configured the planner
\* fails for every current position when the target lies inside the wall
\* (bounds included), and never fails for that reason when it lies outside.
C17_TargetInWallFails ==
    PlannedWithWall =>
        IF PanWallHas(Cent * out.b, wall)
        THEN ~out.ok
        ELSE ~(~out.ok /\ out.why = "target")

\* circular distance between two angles in hundredths
CircDist(x, y) ==
    LET d == (x - y) % Turn IN IF d > HalfTurn THEN Turn - d ELSE d

\* C19: with the current pan inside the wall and the target outside, the planner
\* exits through the bound nearer to the current pan to the point 1 degree
\* beyond it and returns exit rotation + remaining rotation, both legs in the
\* returned direction, the leg after the exit point not re-entering the wall.
C19_ExitsNearerBound ==
    (/\ PlannedWithWall
     /\ PanWallHas(Cent * out.a, wall) /\ ~PanWallHas(Cent * out.b, wall)) =>
        LET ds == CircDist(Cent * out.a, Cent * wall.ws)
            de == CircDist(Cent * out.a, Cent * wall.we)
        IN  /\ out.ok /\ out.exit
            /\ \/ ds <= de /\ out.exitPt = (Cent * wall.ws - Cent) % Turn
               \/ de <= ds /\ out.exitPt = (Cent * wall.we + Cent) % Turn
            /\ out.rot = out.exitRot + out.restRot
            /\ Sign(out.exitRot) = out.dir
            /\ out.restRot = 0 \/ Sign(out.restRot) = out.dir
            /\ (Cent * out.a + out.exitRot) % Turn = out.exitPt
            /\ (out.exitPt + out.restRot) % Turn = Cent * out.b
            /\ ~SweepTouchesWall(out.exitPt, out.restRot, wall)

\* the planner was asked for wall [100,200], current pan 150, target 250
C20_Case ==
    /\ PlannedWithWall
    /\ wall.ws = 100 /\ wall.we = 200
    /\ out.a = 150 /\ out.b = 250

\* C20: for wall [100,200], current pan 150 and target 250 the planner exits
\* to 201 (1 degree beyond the upper bound, taken when both bounds are equally
\* near) and continues to 250 without reversing: +51 then +49, direction 1.
C20_ExitsTo201 ==
    C20_Case =>
        /\ out.ok /\ out.exit /\ out.dir = 1
        /\ out.exitPt = 201 * Cent
        /\ out.exitRot = 51 * Cent /\ out.restRot = 49 * Cent
        /\ out.rot = 100 * Cent

C20_Witness == C20_Case /\ out.ok /\ out.exitPt = 201 * Cent

\* C20 as stated: the path first exits to 199 or 101 and then continues to 250
\* without reversing direction.
C20_ExitsTo199Or101 ==
    C20_Case =>
        /\ out.ok /\ out.exit
        /\ out.exitPt \in {199 * Cent, 101 * Cent}
        /\ out.restRot = 0 \/ Sign(out.restRot) = Sign(out.exitRot)

\* the verdicts of geometric infeasibility: target inside the wall, or both
\* routes blocked
Infeasible == {"target", "route"}

\* C18: when a recall fails for geometric infeasibility, recall_preset has
\* emitted no motion packet and emits none before it returns, and on return the
\* active-recall flag is released.
C18_NoMotionOnInfeasible ==
    [][\A t \in RecallThreads :
         /\ (rpc[t] = "plan" /\ rpc'[t] # "plan" /\ out'.why \in Infeasible) =>
               /\ rpc'[t] = "finally"
               /\ rsent'[t] = 0
               /\ ~recall_active'
         /\ (rpc[t] = "finally" /\ rpc'[t] = "idle") =>
               /\ rsent'[t] = rsent[t]
               /\ ~recall_active']_vars

\* a recall found both routes blocked and is about to return
C18_Witness ==
    /\ out.op = "recall" /\ out.why = "route"
    /\ rpc[out.t] = "finally" /\ rsent[out.t] = 0 /\ ~recall_active

\* the planner was asked with wall-aware planning off or without pan bounds
PlannedWithoutWall == out.op = "planraw" /\ (~out.vwp \/ ~wall.has)

\* C21: with wall-aware planning disabled, for all a, b in [0,360), a = b and
\* |a - b| = 180 included, plan(a, b) and plan(b, a) return rotations of equal
\* magnitude and opposite direction.
C21_RoundTrip ==
    (PlannedWithoutWall /\ ~out.vwp) =>
        /\ out.ok /\ out.backOk
        /\ Abs(out.rot) = Abs(out.backRot)
        /\ out.dir = -out.backDir

\* C22: with the wall disabled or the pan bounds absent the planner returns a
\* rotation r with |r| <= 180 and current + r congruent to the target modulo
\* 360, and the returned direction is the sign of r.
C22_ShortestSigned ==
    PlannedWithoutWall =>
        /\ out.ok
        /\ Abs(out.rot) <= HalfTurn
        /\ (out.a + out.rot) % Turn = out.b % Turn
        /\ out.rot > 0 => out.dir = 1
        /\ out.rot < 0 => out.dir = -1

\* -------------------------------------------------------------------- C29
\* C29: with adaptive speed enabled and the default breakpoints, the
\* percentage a pan, tilt or roll start goes on with is 50 at zoom 0 %, 3 at
\* zoom 100 %, 26 or 27 at zoom 50 %, and for every zoom in the range the
\* integer part of the line from (0, 50) to (100, 3), whatever percentage
\* was requested.
OnLine(r, zoom) ==
    LET d == 100 * ZoomNativeSpan
        y == AdaptLow * d + ZoomPctNum(zoom) * (AdaptHigh - AdaptLow)
    IN  r * d <= y /\ y < (r + 1) * d

AdaptiveStart(t) ==
    adaptive_speed /\ axis \in PTR /\ pos.has /\ pc[t] \in {"su_write", "su_send"}

C30_RequestIgnored ==
    (adaptive_speed /\ axis \in PTR /\ pc["joy"] = "idle") =>
        \A dir \in DirsOf(axis), p1 \in AdaptPcts, p2 \in AdaptPcts :
            StartEffect(st, axis, adaptive_speed, pos, wall, virtualwall,
                        dir, p1, "axis")
              = StartEffect(st, axis, adaptive_speed, pos, wall, virtualwall,
                            dir, p2, "axis")

\* -------------------------------------------------------------------- C23
\* C23: when do_move_segment has returned, whatever ended its loop (all axes
\* within margin, a cleared recall flag, no cached position, a time-out), the
\* last packet it sent for each of pan, tilt, roll and zoom is an idle packet.
C23_IdleOnEveryExit ==
    seg.pc = "done" =>
        /\ seg.exit # "none"
        /\ \A ax \in Axes : sent[ax] = "idle"

C23_Witness ==
    /\ seg.pc = "done" /\ seg.exit = "nopos"
    /\ sent.rel = {"pan", "tilt", "zoom"}

\* -------------------------------------------------------------------- C24
\* C24: with a device whose reported position never changes, the segment
\* executor eventually gives up and returns.
C24_StallAborts == <>(seg.pc = "done")

\* -------------------------------------------------------------------- C25
\* C25: in the pass in which the zoom delta has changed sign since the pass
\* before (the zoom ran past the target), the executor leaves the loop and
\* has sent a zoom idle packet followed by the absolute zoom packet.
C25_OvershootCorrected ==
    seg.zover => (seg.pc \in {"final", "done"} /\ seg.corrected)

\* -------------------------------------------------------------------- C26
\* C26: the segment executor never emits a relative command while the cached
\* sample is older than the staleness timeout.
C26_NoStaleUse == ~seg.stale_used

\* -------------------------------------------------------------------- C27
\* C27: pan target 10 degrees away, tilt, roll and zoom on target, speed 50,
\* a device that follows: the loop ends in its second pass, no tilt or roll
\* command is ever sent and the last packet of the call is a zoom idle.
C27_Case ==
    /\ dev.mode = "follows" /\ seg.speed = 50
    /\ seg.tPan = 60 /\ seg.tTilt = 0 /\ seg.tRoll = 0 /\ seg.tZoom = 2000

C27_PanOnlySegment ==
    C27_Case =>
        /\ seg.iters <= 2
        /\ seg.iters = 2 => seg.pc \in {"final", "done"}
        /\ sent.rel \subseteq {"pan"}
        /\ seg.pc = "done" => sent.last = <<"zoom", "idle">>

C27_Witness ==
    /\ C27_Case /\ seg.pc = "done" /\ seg.exit = "done"
    /\ seg.iters = 2 /\ sent.rel = {"pan"} /\ dev.pan = 60

\* -------------------------------------------------------------------- C28
\* C28: after stop_recall the executor's next loop test finds the flag
\* cleared: it never enters another pass with a cancellation behind it.
C28_CancelObserved == ~seg.missed

\* ------------------------------------------------------- two-axis scenario
\* The joystick thread on `axis` with its timer callbacks, and next to it the
\* calls and repeat ticks of the second axis; both share cumulative_delta and
\* predicted_block.
InitAxes ==
    /\ InitMotion
    /\ InitRecall
    /\ InitAux
    /\ axis = "pan"
    /\ callers = {"joy"}
    /\ pos = [has |-> TRUE, pan |-> 50, tilt |-> 50, roll |-> 0, zoom |-> 1]
    /\ wall = NoWall
    /\ virtualwall = FALSE
    /\ adaptive_speed = FALSE
    /\ predictor = "off"

PeerStep ==
    \/ \E dir \in DirsOf(Peer(axis)), pct \in Pcts : PeerStart(dir, pct, "axis")
    \/ PeerStop
    \/ PeerTick

NextAxes ==
    \/ MotionStep
    \/ PeerStep

SpecAxes == InitAxes /\ [][NextAxes]_vars

\* -------------------------------------------------------------------- C31
\* C31: an axis whose active flag is false has no pending repeat callback and
\* no pending idle-grace callback.  Stated for the states in which no
\* start_or_update_movement or stop_movement call is under way, where the
\* handles are not in the middle of being replaced.
C31_InactiveNothingPending ==
    (~st.active /\ \A t \in Callers : pc[t] = "idle") =>
        (PendingRepeat(timers) = {} /\ PendingIdle(timers) = {})

\* -------------------------------------------------------------------- C32
\* C32: deltas commanded during an earlier motion of an axis are not part of
\* the accumulator the predictor adds to the position during a later motion:
\* while the second axis is the only one that was ever commanded and is
\* active, cumulative_delta is the sum of the deltas of the repeat ticks of
\* its current motion.
C32_NoCarryOver ==
    (nops = 0 /\ other.active) => cumulative_delta = other.moved

\* -------------------------------------------------------------------- C33
\* the flag, direction and control kind of a slot
Motion(s) == <<s.active, s.direction, s.control_type>>

RepeatStep == \E id \in TimerIds : RepeatFire(id) \/ RepeatSend(id) \/ RepeatArm(id)

\* C33: an axis goes from inactive to active only in start_or_update_movement
\* and from active to inactive only in stop_movement; a repeat callback leaves
\* the active flag, direction and control kind of its axis as they are; and a
\* call or callback of one axis leaves the slot of the other axis as it is.
C33_AxisFrame ==
    [][ /\ (~st.active /\ st'.active) =>
              \E t \in Callers : pc[t] = "su_write" /\ pc'[t] = "su_send"
        /\ (st.active /\ ~st'.active) =>
              \E t \in Callers : pc[t] = "sm_write" /\ pc'[t] = "sm_timer"
        /\ (~other.active /\ other'.active) =>
              \E dir \in DirsOf(Peer(axis)), pct \in Pcts : PeerStart(dir, pct, "axis")
        /\ (other.active /\ ~other'.active) => PeerStop
        /\ Motion(st') # Motion(st) => ~RepeatStep
        /\ Motion(other') # Motion(other) => ~PeerTick
        /\ other' # other => ~MotionStep
        /\ (st' # st \/ timers' # timers) => ~PeerStep
      ]_vars

C33_Witness ==
    /\ st.active /\ \E id \in TimerIds : timers[id].state = "rc_arm"
    /\ other.active /\ other.moved # 0

\* ---------------------------------------------------------- packet scenario
\* send_movement_packet called for one axis with every percentage a caller can
\* pass, under a wall configuration and a cached position; for roll the wall
\* is the tilt wall (lines 1722-1727) and the position the tilt (line 1739).
AllPcts == 1..100
PacketWalls == {NoWall, [has |-> TRUE, ws |-> 100, we |-> 200]}
PacketSamples == {[has |-> TRUE, pan |-> v, tilt |-> v, roll |-> 0, zoom |-> ZoomNativeMin] :
                     v \in {50, 150}}

PacketCall(dir, pct) ==
    LET pk == SendMovementPacket(axis, dir, pct, "axis", pos, wall, virtualwall)
    IN  /\ out = NoOut
        /\ out' = [op |-> "packet", dir |-> dir, pct |-> pct, kind |-> pk.kind,
                   sv |-> pk.sv]
        /\ UNCHANGED <<motionVars, recallVars, cfgCore, pos, predicted_block,
                       predictor, virtual_wall_tracker, predObs>>

InitPacket ==
    /\ InitMotion
    /\ InitRecall
    /\ InitAux
    /\ axis \in Axes
    /\ callers = {}
    /\ pos \in PacketSamples
    /\ wall \in PacketWalls
    /\ virtualwall \in BOOLEAN
    /\ adaptive_speed = FALSE
    /\ predictor = "off"

NextPacket == \E dir \in DirsOf(axis), pct \in AllPcts : PacketCall(dir, pct)

SpecPacket == InitPacket /\ [][NextPacket]_vars

C37_WallSparesRollZoom ==
    (out.op = "packet" /\ axis \in {"roll", "zoom"}) => out.kind = "move"

\* -------------------------------------------------------------------- C35
\* C35: whichever way the accepted recalls ended (preset missing, target in
\* the wall, no position, no route, executor finished or aborted), once no
\* recall_preset call is executing the recall flag is clear.
C35_FlagReleased ==
    (\A t \in RecallThreads : rpc[t] = "idle") => ~recall_active

C35_Witness ==
    /\ \A t \in RecallThreads : rpc[t] = "idle"
    /\ ~recall_active
    /\ rsent["joy"] = MaxRecallSteps
    /\ out.op = "recall" /\ out.t = "panel" /\ out.why = "target"

\* -------------------------------------------------------------------- C36
\* a repeat callback of the axis is between its first and its last line
RepeatRunning == \E id \in TimerIds : timers[id].state \in {"rc_send", "rc_arm"}

\* C36: an axis marked active has a repeat timer pending or its repeat
\* callback executing.  Stated for the states in which no
\* start_or_update_movement or stop_movement call is under way.
C36_ActiveKeepsRepeating ==
    (st.active /\ \A t \in Callers : pc[t] = "idle") =>
        (PendingRepeat(timers) # {} \/ RepeatRunning)

\* ------------------------------------------------------ two-device scenario
\* UDPListener._listen_loop on an FDB frame of another device: the frame goes
\* to that device's slot of current_position and last_fdb_timestamp, and its
\* pan, in degrees, to presets.handle_feedback_pan.
ForeignPans == {200}

ForeignFeed(p) ==
    /\ dev.mode # "none"
    /\ localPan # p
    /\ localPan' = p
    /\ UNCHANGED <<segRest, recallVars, segVars, pos, fdb_old>>

NextForeign ==
    \/ SegCheck
    \/ SegBody
    \/ SegFetch
    \/ SegFinal
    \/ DevFeed
    \/ \E p \in ForeignPans : ForeignFeed(p)
    \/ \E k \in {"stall", "stable", "fdb"} : Elapse(k)
    \/ RecallFinally("joy")

\* the device of the recall stands still while the other one reports
SpecForeign == InitStall /\ [][NextForeign]_vars

\* -------------------------------------------------------------------- C38
\* C38: the pan from which the executor of a recall for a device computes its
\* next pan step is the pan of that device's own latest position sample.
C38_OwnPanTracked ==
    (seg.pc = "body" /\ pos.has) => localPan = pos.pan

\* -------------------------------------------------------------------- C39
\* C39: a repeat tick of the tilt axis leaves the cumulative delta that the
\* pan predictor adds to the pan position as it is, and a repeat tick of the
\* pan axis leaves what the tilt predictor adds as it is.  Both predictors
\* add get_cumulative_delta(), the one accumulator.  In this scenario the
\* second axis is tilt.
C39_TiltTickSparesPan ==
    [][ PeerTick => cumulative_delta' = cumulative_delta ]_vars

\* -------------------------------------------------------------------- C40
\* predicted_block is written at lines 451-458 only, which no run of the
\* predictor reaches (see C9): the flag stays clear, so the case C40 speaks
\* of, a repeat tick of another axis while the flag is set, does not occur.
PredictedBlockNeverSet == ~predicted_block
====
